---------------------------- MODULE Spec2Model ----------------------------
(***************************************************************************)
(* The document intelligence pipeline: OllamaService (text extraction),    *)
(* StampSignatureService (stamp and signature analysis) and OpenAIService  *)
(* (template classification and field extraction).                         *)
(*                                                                         *)
(* A text is a sequence of lower-cased tokens; the tokens of a text are    *)
(* joined by one white-space character.  Every test of the code is         *)
(* case-insensitive (toLowerCase, or the i flag), so lower-casing loses    *)
(* nothing.  A number is kept in hundredths (0.7 is 70).                   *)
(***************************************************************************)
EXTENDS Integers, Sequences, FiniteSets, TLC

VARIABLES
  op,            \* the entry point that was called
  pc,            \* the position of the call
  extractedText, \* the text the stage works on
  catalog,       \* availableTemplates
  ollamaResult,  \* the outcome of extractTextFromDocument
  templateMatch, \* findBestTemplate's result
  lastReply,     \* the reply of the inference service to the last request
  sent,          \* the requests sent so far, in order
  result,        \* the outcome of the entry point
  health,        \* a checkServiceHealth call
  invocation,    \* two concurrent calls of analyzeDocument
  sharedCatalog, \* the template catalog the two calls were given
  registry,      \* OFFICIAL_STAMP_MASTER_LIST, as the running program holds it
  stampList,     \* what getMasterStampList returned to its caller
  activeSessions, \* MobileUploadService.activeSessions
  pendingFiles,  \* MobileUploadService.pendingFiles
  listeners,     \* MobileUploadService.listeners
  upload,        \* the uploadFile call in flight
  page,          \* the state of a MobileUploadPage
  last,          \* what the last operation of the upload service did
  notifications, \* localStorage's mobile_upload_notifications
  wsListeners,   \* WebSocketService.listeners
  delivered      \* the notifications WebSocketService took from
                 \* localStorage and the callbacks it invoked, so far

pipelineVars == <<op, pc, extractedText, catalog, ollamaResult, templateMatch,
                  lastReply, sent, result>>
healthVars == <<health>>
concurrentVars == <<invocation, sharedCatalog, registry, stampList>>
mobileVars == <<activeSessions, pendingFiles, listeners, upload, page, last>>
wsVars == <<notifications, wsListeners, delivered>>

vars == <<pipelineVars, healthVars, concurrentVars, mobileVars, wsVars>>

(***************************************************************************)
(* Bounds of the model.                                                    *)
(***************************************************************************)
MaxConfPhrases == 3
MaxStampPhrases == 2
MaxDocPhrases == 2
MaxCatalog == 2

(***************************************************************************)
(* Texts.                                                                  *)
(***************************************************************************)
NL == "<nl>"

\* The white-space tokens (String.prototype.trim strips them at both ends).
IsSpace(tok) == tok = NL

\* The length in characters of a token; a "ruleN" token is a ruled line of
\* N underscores.
TokLen(tok) ==
  CASE tok = NL -> 1
    [] tok = "rule100" -> 100
    [] tok = "rule399" -> 399
    [] OTHER -> Len(tok)

RECURSIVE SumLen(_)
SumLen(text) ==
  IF text = <<>> THEN 0 ELSE TokLen(Head(text)) + SumLen(Tail(text))

\* text.length
TextLength(text) ==
  IF text = <<>> THEN 0 ELSE SumLen(text) + (Len(text) - 1)

\* The tokens without a digit, without a letter, with a punctuation mark of
\* [.,;:!?].
DigitTokens == {"7", "14th", "12/05/2024"}
NoLetterTokens == {NL, "rule100", "rule399", "7", "12/05/2024", ".", ":", ","}
PunctTokens == {".", ":", ",", "a.p.s.p."}

HasDigit(tok) == tok \in DigitTokens
HasLetter(tok) == tok \notin NoLetterTokens
HasPunct(tok) == tok \in PunctTokens

\* The words a token contains as proper substrings.
Sub(tok) ==
  CASE tok = "14th" -> {"14"}
    [] tok = "bns" -> {"bn"}
    [] tok = "a.p.s.p." -> {"a.p.s.p"}
    [] tok = "sd/-" -> {"sd/", "sd"}
    [] tok = "signed" -> {"sign"}
    [] tok = "signature" -> {"sign"}
    [] tok = "dated" -> {"date"}
    [] tok = "officer_name" -> {"officer", "name"}
    [] tok = "leave_date" -> {"leave", "date"}
    [] tok = "leave_type" -> {"leave", "type"}
    [] tok = "to_station" -> {"to", "station"}
    [] tok = "rank_no" -> {"rank", "no"}
    [] tok = "award_date" -> {"award", "date"}
    [] OTHER -> {}

\* tok.includes(word): the empty string is included in every string.
TokIncludes(tok, word) == word = "" \/ word = tok \/ word \in Sub(tok)

\* text.includes(word), for a word without white space.
Includes(text, word) ==
  word = "" \/ \E i \in 1..Len(text) : TokIncludes(text[i], word)

RECURSIVE TrimStart(_)
TrimStart(text) ==
  IF text # <<>> /\ IsSpace(Head(text)) THEN TrimStart(Tail(text)) ELSE text

RECURSIVE TrimEnd(_)
TrimEnd(text) ==
  IF text # <<>> /\ IsSpace(text[Len(text)])
  THEN TrimEnd(SubSeq(text, 1, Len(text) - 1))
  ELSE text

\* String.prototype.trim
Trim(text) == TrimEnd(TrimStart(text))

\* The texts made of at most n of the phrases.
RECURSIVE TextsUpTo(_, _)
TextsUpTo(phrases, n) ==
  IF n = 0 THEN {<<>>}
  ELSE LET shorter == TextsUpTo(phrases, n - 1)
       IN shorter \cup {t \o p : t \in shorter, p \in phrases}

Min(a, b) == IF a < b THEN a ELSE b
Max(a, b) == IF a > b THEN a ELSE b

(***************************************************************************)
(* OllamaService.                                                          *)
(***************************************************************************)
documentKeywords ==
  {"date", "name", "address", "phone", "email", "officer", "department",
   "police"}

keywordMatches(text) ==
  Cardinality({k \in documentKeywords : Includes(text, k)})

\* rawConfidence with 0.02 added once, however many keywords match.
rawConfidence_SingleKeywordBonus(text) ==
  LET hasNumbers == \E i \in 1..Len(text) : HasDigit(text[i])
      hasLetters == \E i \in 1..Len(text) : HasLetter(text[i])
      hasPunctuation == \E i \in 1..Len(text) : HasPunct(text[i])
  IN 70
     + (IF TextLength(text) > 100 THEN 10 ELSE 0)
     + (IF TextLength(text) > 500 THEN 10 ELSE 0)
     - (IF TextLength(text) < 20 THEN 20 ELSE 0)
     + (IF hasNumbers /\ hasLetters THEN 5 ELSE 0)
     + (IF hasPunctuation THEN 5 ELSE 0)
     + (IF keywordMatches(text) > 0 THEN 2 ELSE 0)

\* calculateConfidence, without the clamp of its last line.
rawConfidence(text) ==
  LET hasNumbers == \E i \in 1..Len(text) : HasDigit(text[i])
      hasLetters == \E i \in 1..Len(text) : HasLetter(text[i])
      hasPunctuation == \E i \in 1..Len(text) : HasPunct(text[i])
  IN 70
     + (IF TextLength(text) > 100 THEN 10 ELSE 0)
     + (IF TextLength(text) > 500 THEN 10 ELSE 0)
     - (IF TextLength(text) < 20 THEN 20 ELSE 0)
     + (IF hasNumbers /\ hasLetters THEN 5 ELSE 0)
     + (IF hasPunctuation THEN 5 ELSE 0)
     + (IF keywordMatches(text) > 0 THEN keywordMatches(text) * 2 ELSE 0)

\* calculateConfidence without the test of its first line.
calculateConfidence_NoEmptyCheck(text) ==
  Min(Max(rawConfidence(text), 0), 100)

calculateConfidence(text) ==
  IF TextLength(text) = 0 THEN 0
  ELSE Min(Max(rawConfidence(text), 0), 100)

\* The replies of the vision service to a text extraction request: the
\* request fails in transport, the status is not OK, the body is no JSON,
\* the JSON has no (or an empty) response, the JSON has a response.
OllamaFailures ==
  {[kind |-> k, response |-> <<>>] :
     k \in {"transport", "status", "badjson", "noresponse"}}

OllamaReplies(texts) ==
  OllamaFailures \cup {[kind |-> "ok", response |-> t] : t \in texts}

\* processWithGemma3, from the reply on: the trimmed response, or a throw.
processWithGemma3(reply) ==
  IF reply.kind = "ok" /\ reply.response # <<>>
  THEN [threw |-> FALSE, text |-> Trim(reply.response)]
  ELSE [threw |-> TRUE, text |-> <<>>]

Pending == [status |-> "pending"]
Rejected == [status |-> "rejected"]

\* extractTextFromDocument with a catch block that returns the empty text
\* instead of throwing again.
extractTextFromDocument_EmptyOnFailure(reply) ==
  LET got == processWithGemma3(reply)
  IN [status |-> "resolved",
      extractedText |-> got.text,
      confidence |-> calculateConfidence(got.text),
      pages |-> <<[pageNumber |-> 1,
                   extractedText |-> got.text,
                   confidence |-> calculateConfidence(got.text)]>>]

\* extractTextFromDocument, from processWithGemma3's outcome on.
extractTextFromDocument(reply) ==
  LET got == processWithGemma3(reply)
  IN IF got.threw THEN Rejected
     ELSE [status |-> "resolved",
           extractedText |-> got.text,
           confidence |-> calculateConfidence(got.text),
           pages |-> <<[pageNumber |-> 1,
                        extractedText |-> got.text,
                        confidence |-> calculateConfidence(got.text)]>>]

(***************************************************************************)
(* StampSignatureService.                                                  *)
(***************************************************************************)
\* obj[key], or undef when the object has no such key (a JavaScript
\* property read).
Get(obj, key, undef) == IF key \in DOMAIN obj THEN obj[key] ELSE undef

UndefinedName == "<undefined>"   \* an undefined stamp name or type
UndefinedText == <<"<undefined>">> \* an undefined text (person name, date)
NoCoordinates == <<>>            \* Coordinates: null

\* A pattern is a sequence of fragments that must occur in this order with
\* any characters but a line break between them (the regular expression's
\* .*); a fragment is a sequence of words with white space between them (its
\* \s+).
OFFICIAL_STAMP_MASTER_LIST ==
  << [id |-> "stamp_1",
      name |-> "OFFICER COMMANDING 14th BN A.P.S.P. ANANTHAPURAMU",
      pattern |-> << <<"officer", "commanding">>, <<"14">>, <<"bn">>,
                     <<"a.p.s.p">>, <<"ananthapuramu">> >>],
     [id |-> "stamp_2",
      name |-> "STATE OFFICER TO ADGP APSP HEAD OFFICE MANGALAGIRI",
      pattern |-> << <<"state", "officer">>, <<"adgp">>, <<"apsp">>,
                     <<"head", "office">>, <<"mangalagiri">> >>],
     [id |-> "stamp_3",
      name |-> "Inspector General of Police APSP Bns, Amaravathi",
      pattern |-> << <<"inspector", "general">>, <<"police">>, <<"apsp">>,
                     <<"bns">>, <<"amaravathi">> >>],
     [id |-> "stamp_4",
      name |-> "Dy. Inspector General of Police-IV APSP Battalions, Mangalagiri",
      pattern |-> << <<"dy">>, <<"inspector", "general">>, <<"police">>,
                     <<"apsp">>, <<"battalions">>, <<"mangalagiri">> >>],
     [id |-> "stamp_5",
      name |-> "Sd/- B. Sreenivasulu, IPS., Addl. Commissioner of Police, Vijayawada City",
      pattern |-> << <<"sd">>, <<"sreenivasulu">>, <<"ips">>,
                     <<"commissioner">>, <<"police">>, <<"vijayawada">> >>],
     [id |-> "stamp_6",
      name |-> "Dr. SHANKHABRATA BAGCHI IPS., Addl. Director General of Police, APSP Battalions",
      pattern |-> << <<"shankhabrata">>, <<"bagchi">>, <<"ips">>,
                     <<"director", "general">>, <<"police">>, <<"apsp">>,
                     <<"battalions">> >>] >>

\* The first position at or after i that holds no white-space token.
RECURSIVE SkipSpace(_, _)
SkipSpace(text, i) ==
  IF i <= Len(text) /\ IsSpace(text[i]) THEN SkipSpace(text, i + 1) ELSE i

\* The position after the fragment when it occurs at position k, else 0.
RECURSIVE FragmentEnd(_, _, _)
FragmentEnd(text, k, words) ==
  IF words = <<>> THEN k
  ELSE IF k > Len(text) \/ ~TokIncludes(text[k], Head(words)) THEN 0
  ELSE IF Len(words) = 1 THEN k + 1
  ELSE FragmentEnd(text, SkipSpace(text, k + 1), Tail(words))

\* No line break in text[i..k-1].
NoLineBreak(text, i, k) == \A m \in i..(k - 1) : text[m] # NL

\* The fragments from the j-th on occur from position i on; anywhere means
\* that the first of them may start at any position (the pattern is not
\* anchored), and otherwise no line break may precede it.
RECURSIVE MatchFrom(_, _, _, _, _)
MatchFrom(text, i, pattern, j, anywhere) ==
  \/ j > Len(pattern)
  \/ \E k \in i..Len(text) :
       /\ anywhere \/ NoLineBreak(text, i, k)
       /\ FragmentEnd(text, k, pattern[j]) # 0
       /\ MatchFrom(text, FragmentEnd(text, k, pattern[j]), pattern, j + 1,
                    FALSE)

\* stamp.pattern.test(extractedText)
PatternTest(pattern, text) == MatchFrom(text, 1, pattern, 1, TRUE)

\* The indexes of the records of the registry whose pattern the text matches.
MatchingStamps(text) ==
  {n \in 1..Len(OFFICIAL_STAMP_MASTER_LIST) :
     PatternTest(OFFICIAL_STAMP_MASTER_LIST[n].pattern, text)}

SetMin(S) == CHOOSE x \in S : \A y \in S : x <= y

SetMax(S) == CHOOSE x \in S : \A y \in S : x >= y

\* The loop over the registry without its break: the last match decides.
matchedStampIndex_NoBreak(text) ==
  IF MatchingStamps(text) = {} THEN 0 ELSE SetMax(MatchingStamps(text))

\* The loop over the registry of fallbackTextAnalysis: the index of the
\* first record whose pattern the text matches, 0 when there is none.
matchedStampIndex(text) ==
  IF MatchingStamps(text) = {} THEN 0 ELSE SetMin(MatchingStamps(text))

stampKeywords ==
  {"stamp", "seal", "officer", "police", "commanding", "commissioner"}
signatureKeywords == {"signature", "signed", "sd/", "sign"}

\* The tokens of a character class: letters only, and letters and dots only.
LetterTokens ==
  {"ravi", "kumar", "by", "signed", "seal", "officer", "commanding", "bn",
   "bns", "ananthapuramu", "inspector", "general", "police", "apsp",
   "amaravathi", "dy", "battalions", "mangalagiri", "ips", "guntur", "name",
   "station", "rank", "transfer", "order", "leave", "award", "ok",
   "department", "dated", "posting"}
LetterDotTokens == LetterTokens \cup {".", "a.p.s.p."}
DateTokens == {"12/05/2024"}

\* The run of tokens from position i on that are white space or in the
\* class (the capture group ([a-z\s]+) or ([a-z\s\.]+)).
RECURSIVE ClassRun(_, _, _)
ClassRun(text, i, class) ==
  IF i <= Len(text) /\ (IsSpace(text[i]) \/ text[i] \in class)
  THEN <<text[i]>> \o ClassRun(text, i + 1, class)
  ELSE <<>>

\* The positions of the tokens that include one of the words and are not
\* the last token of the text: the group after such a word captures at least
\* the white space that follows the token.
TriggerPositions(text, words) ==
  {i \in 1..(Len(text) - 1) : \E w \in words : TokIncludes(text[i], w)}

\* /sd\/?\s*-?\s*([a-z\s\.]+)/i
SdName(text) ==
  LET at == TriggerPositions(text, {"sd"})
  IN IF at = {} THEN UndefinedText
     ELSE Trim(ClassRun(text, SetMin(at) + 1, LetterDotTokens))

\* /signed\s+by\s+([a-z\s\.]+)/i
SignedByPositions(text) ==
  {i \in 1..(Len(text) - 1) :
     /\ text[i] = "signed"
     /\ SkipSpace(text, i + 1) < Len(text)
     /\ text[SkipSpace(text, i + 1)] = "by"}

SignedByName(text) ==
  LET at == SignedByPositions(text)
  IN IF at = {} THEN UndefinedText
     ELSE Trim(ClassRun(text, SkipSpace(text, SetMin(at) + 1) + 1,
                        LetterDotTokens))

\* /([a-z]+\s+[a-z]+),?\s+ips/i
IpsPositions(text) ==
  {i \in 1..(Len(text) - 2) :
     /\ text[i] \in LetterTokens
     /\ text[i + 1] \in LetterTokens
     /\ \/ TokIncludes(text[i + 2], "ips")
        \/ /\ text[i + 2] = ","
           /\ i + 3 <= Len(text)
           /\ TokIncludes(text[i + 3], "ips")}

IpsName(text) ==
  LET at == IpsPositions(text)
  IN IF at = {} THEN UndefinedText
     ELSE <<text[SetMin(at)], text[SetMin(at) + 1]>>

\* The first of namePatterns that matches with a non-empty group decides.
fallbackPersonName(text) ==
  IF SdName(text) # UndefinedText THEN SdName(text)
  ELSE IF SignedByName(text) # UndefinedText THEN SignedByName(text)
  ELSE IpsName(text)

\* /(\d{1,2}[-\/]\d{1,2}[-\/]\d{2,4})/
fallbackDate(text) ==
  LET at == {i \in 1..Len(text) : text[i] \in DateTokens}
  IN IF at = {} THEN UndefinedText ELSE <<text[SetMin(at)]>>

fallbackTextAnalysis(text) ==
  LET hasStampKeywords == \E k \in stampKeywords : Includes(text, k)
      hasSignatureKeywords == \E k \in signatureKeywords : Includes(text, k)
      personName == fallbackPersonName(text)
      date == fallbackDate(text)
      matched == matchedStampIndex(text)
  IN [Stamp |->
        [Status |-> IF hasStampKeywords THEN "Present" ELSE "Absent",
         Coordinates |-> IF hasStampKeywords THEN <<100, 100, 200, 100>>
                         ELSE NoCoordinates,
         Type |-> IF hasStampKeywords THEN "official_stamp"
                  ELSE UndefinedName,
         Confidence |-> IF hasStampKeywords THEN 60 ELSE 30,
         PersonName |-> personName,
         Date |-> date],
      Signature |->
        [Status |-> IF hasSignatureKeywords THEN "Present" ELSE "Absent",
         Coordinates |-> IF hasSignatureKeywords THEN <<300, 400, 150, 50>>
                         ELSE NoCoordinates,
         Confidence |-> IF hasSignatureKeywords THEN 60 ELSE 30,
         PersonName |-> personName,
         Date |-> date],
      StampValidation |-> IF matched = 0 THEN "N" ELSE "Y",
      MatchedStampType |->
        IF matched = 0 THEN UndefinedName
        ELSE OFFICIAL_STAMP_MASTER_LIST[matched].name,
      PersonName |-> personName,
      Date |-> date]

\* x || undef, for a text and for a name ("" and null are falsy).
OrText(x, undef) == IF x = <<>> THEN undef ELSE x
OrName(x, undef) == IF x = "" THEN undef ELSE x

\* Lines 250-281 of analyzeWithOllama: the result made of analysisResult.
\* A key the object does not have reads as undefined.
convertAnalysis(analysisResult) ==
  LET stamp_detected == Get(analysisResult, "stamp_detected", FALSE)
      stamp_coordinates == Get(analysisResult, "stamp_coordinates", <<>>)
      stamp_text == Get(analysisResult, "stamp_text", <<>>)
      confidence_score == Get(analysisResult, "confidence_score", 0)
      person_name == Get(analysisResult, "person_name", <<>>)
      date_found == Get(analysisResult, "date_found", <<>>)
      signature_detected == Get(analysisResult, "signature_detected", FALSE)
      signature_coordinates ==
        Get(analysisResult, "signature_coordinates", <<>>)
      official_stamp_match ==
        Get(analysisResult, "official_stamp_match", FALSE)
      matched_stamp_type == Get(analysisResult, "matched_stamp_type", "")
  IN [Stamp |->
        [Status |-> IF stamp_detected THEN "Present" ELSE "Absent",
         Coordinates |-> stamp_coordinates,
         Type |-> IF stamp_text # <<>> THEN "official_stamp"
                  ELSE UndefinedName,
         Confidence |-> IF confidence_score # 0 THEN confidence_score
                        ELSE 70,
         ExtractedText |-> OrText(stamp_text, UndefinedText),
         PersonName |-> OrText(person_name, UndefinedText),
         Date |-> OrText(date_found, UndefinedText)],
      Signature |->
        [Status |-> IF signature_detected THEN "Present" ELSE "Absent",
         Coordinates |-> signature_coordinates,
         Confidence |-> IF confidence_score # 0 THEN confidence_score
                        ELSE 70,
         PersonName |-> OrText(person_name, UndefinedText),
         Date |-> OrText(date_found, UndefinedText)],
      StampValidation |-> IF official_stamp_match THEN "Y" ELSE "N",
      MatchedStampType |-> OrName(matched_stamp_type, UndefinedName),
      PersonName |-> OrText(person_name, UndefinedText),
      Date |-> OrText(date_found, UndefinedText)]

\* analyzeWithOllama, from the reply to its request on.  A failed request,
\* a status that is not OK, a body that is no JSON and an empty response
\* throw inside the outer try; a response that holds no JSON object throws
\* inside the inner one.
analyzeWithOllama(reply, text) ==
  IF reply.kind \in {"transport", "status", "badjson", "noresponse"}
  THEN fallbackTextAnalysis(text)
  ELSE IF reply.kind = "nojson"
  THEN convertAnalysis(fallbackTextAnalysis(text))
  ELSE convertAnalysis(reply.json)

\* The result of the catch block of analyzeStampsAndSignatures.
DefaultStampResult ==
  [Stamp |-> [Status |-> "Absent", Coordinates |-> NoCoordinates],
   Signature |-> [Status |-> "Absent", Coordinates |-> NoCoordinates],
   StampValidation |-> "N"]

(***************************************************************************)
(* OpenAIService.                                                          *)
(***************************************************************************)
\* The values of a field map: a string (a text), a number, null.
StrV(text) == [t |-> "string", v |-> text]
NumV == [t |-> "number", v |-> <<"7">>]
NullV == [t |-> "null", v |-> <<>>]

Thrown == [status |-> "thrown"]

\* A missing template (null, or undefined).
NoTemplate ==
  [id |-> "<none>", name |-> <<>>, category |-> "", template |-> <<>>]

FieldIds(template) ==
  {template.template[i].id : i \in 1..Len(template.template)}

\* The first field of the template with this id.
FieldOf(template, id) ==
  template.template[
    SetMin({i \in 1..Len(template.template) : template.template[i].id = id})]

\* The switch on field.type with the empty string for every type.
DefaultValue_AllEmptyString(field) == StrV(<<>>)

\* The switch on field.type of extractFieldsBasic and ensureAllFieldsPresent.
DefaultValue(field) ==
  CASE field.type \in {"text", "textarea"} -> StrV(<<>>)
    [] field.type = "number" -> NullV
    [] field.type = "date" -> NullV
    [] field.type = "select" ->
         IF field.options # <<>> THEN StrV(field.options[1]) ELSE StrV(<<>>)
    [] OTHER -> StrV(<<>>)

\* The capture of /(?:w1|w2|...)\s*:?\s*([a-z\s]+)/i, trimmed; UndefinedText
\* when the pattern does not match.
LabelledCapture(text, words) ==
  LET at == TriggerPositions(text, words)
      i == SetMin(at)
      from == IF text[i + 1] = ":" THEN i + 2 ELSE i + 1
  IN IF at = {} THEN UndefinedText
     ELSE Trim(ClassRun(text, from, LetterTokens))

\* patterns of extractFieldsBasic, in the order of Object.entries.
patternKeys == <<"name", "date", "station", "rank">>

PatternCapture(key, text) ==
  CASE key = "name" ->
         LabelledCapture(text, {"name", "officer", "recipient", "sri"})
    [] key = "date" -> fallbackDate(text)
    [] key = "station" -> LabelledCapture(text, {"station", "police"})
    [] key = "rank" -> LabelledCapture(text, {"rank"})

\* The indexes of the fields whose label or id includes the key.
MatchingFields(template, key) ==
  {i \in 1..Len(template.template) :
     \/ Includes(template.template[i].label, key)
     \/ TokIncludes(template.template[i].id, key)}

\* One turn of the loop over the patterns.
ApplyPattern(fields, key, text, template) ==
  IF PatternCapture(key, text) # UndefinedText
     /\ MatchingFields(template, key) # {}
  THEN [fields EXCEPT
          ![template.template[SetMin(MatchingFields(template, key))].id] =
            StrV(PatternCapture(key, text))]
  ELSE fields

RECURSIVE ApplyPatterns(_, _, _, _)
ApplyPatterns(fields, keys, text, template) ==
  IF keys = <<>> THEN fields
  ELSE ApplyPatterns(ApplyPattern(fields, Head(keys), text, template),
                     Tail(keys), text, template)

extractFieldsBasic(text, template) ==
  ApplyPatterns([id \in FieldIds(template) |->
                   DefaultValue(FieldOf(template, id))],
                patternKeys, text, template)

\* ensureAllFieldsPresent without its loop over the fields.
ensureAllFieldsPresent_NoFill(extractedFields, template) == extractedFields

\* ensureAllFieldsPresent built from the fields of the template alone.
ensureAllFieldsPresent_TemplateKeysOnly(extractedFields, template) ==
  [id \in FieldIds(template) |->
     IF id \in DOMAIN extractedFields THEN extractedFields[id]
     ELSE DefaultValue(FieldOf(template, id))]

\* A completion that writes the default over a key whose value is null.
ensureAllFieldsPresent_DefaultOverNull(extractedFields, template) ==
  [id \in (DOMAIN extractedFields) \cup FieldIds(template) |->
     IF id \in DOMAIN extractedFields /\ extractedFields[id] # NullV
     THEN extractedFields[id]
     ELSE IF id \in FieldIds(template)
          THEN DefaultValue(FieldOf(template, id))
          ELSE StrV(<<>>)]

ensureAllFieldsPresent(extractedFields, template) ==
  [id \in (DOMAIN extractedFields) \cup FieldIds(template) |->
     IF id \in DOMAIN extractedFields THEN extractedFields[id]
     ELSE DefaultValue(FieldOf(template, id))]

curatedKeywords(id) ==
  CASE id = "transfer" -> {"transfer", "posting", "station", "order"}
    [] id = "award" -> {"award", "certificate", "recognition", "medal"}
    [] id = "complaint" -> {"complaint", "grievance", "disciplinary"}
    [] OTHER -> {}

Words(text) == {text[i] : i \in 1..Len(text)}

getTemplateKeywords(template) ==
  Words(template.name) \cup {template.category}
  \cup UNION {Words(template.template[i].label) :
                i \in 1..Len(template.template)}
  \cup curatedKeywords(template.id)

matchCount(text, template) ==
  Cardinality({k \in getTemplateKeywords(template) : Includes(text, k)})

\* The loop of createFallbackAnalysis without its break, keeping the template
\* with the most matches.
bestTemplateIndex_MostMatches(text, templates) ==
  LET hits == {i \in 1..Len(templates) : matchCount(text, templates[i]) > 0}
  IN IF hits = {} THEN 1
     ELSE SetMin({i \in hits :
                    \A j \in hits : matchCount(text, templates[j])
                                      <= matchCount(text, templates[i])})

\* bestTemplate starting at the last template of the catalog.
bestTemplateIndex_LastByDefault(text, templates) ==
  LET hits == {i \in 1..Len(templates) : matchCount(text, templates[i]) > 0}
  IN IF hits = {} THEN Len(templates) ELSE SetMin(hits)

\* The template and the confidence the loop of createFallbackAnalysis ends
\* with, for a catalog that is not empty.
bestTemplateIndex(text, templates) ==
  LET hits == {i \in 1..Len(templates) : matchCount(text, templates[i]) > 0}
  IN IF hits = {} THEN 1 ELSE SetMin(hits)

fallbackConfidence(text, templates) ==
  LET hits == {i \in 1..Len(templates) : matchCount(text, templates[i]) > 0}
  IN IF hits = {} THEN 50
     ELSE Min(80, 50 + matchCount(text, templates[SetMin(hits)]) * 10)

\* createFallbackAnalysis with bestTemplate left undefined until a template
\* matches.
createFallbackAnalysis_NoDefaultTemplate(text, templates) ==
  IF \A i \in 1..Len(templates) : matchCount(text, templates[i]) = 0
  THEN Thrown
  ELSE LET bestTemplate == templates[bestTemplateIndex(text, templates)]
       IN [status |-> "resolved",
           path |-> "analysis_fallback",
           documentType |-> bestTemplate.name,
           confidence |-> fallbackConfidence(text, templates),
           extractedFields |-> extractFieldsBasic(text, bestTemplate),
           templateMatch |-> bestTemplate]

\* templates[0] of an empty catalog is undefined, and extractFieldsBasic
\* then throws on template.template.
createFallbackAnalysis(text, templates) ==
  IF templates = <<>> THEN Thrown
  ELSE LET bestTemplate == templates[bestTemplateIndex(text, templates)]
       IN [status |-> "resolved",
           path |-> "analysis_fallback",
           documentType |-> bestTemplate.name,
           confidence |-> fallbackConfidence(text, templates),
           extractedFields |-> extractFieldsBasic(text, bestTemplate),
           templateMatch |-> bestTemplate]

\* createFallbackFieldExtraction with a confidence that grows with the
\* number of fields a pattern filled.
createFallbackFieldExtraction_ConfidenceByMatches(text, template) ==
  [path |-> "field_fallback",
   documentType |-> template.name,
   confidence |->
     Min(80, 50 + 10 * Cardinality(
                         {id \in FieldIds(template) :
                            extractFieldsBasic(text, template)[id]
                              # DefaultValue(FieldOf(template, id))})),
   extractedFields |-> extractFieldsBasic(text, template)]

createFallbackFieldExtraction(text, template) ==
  [path |-> "field_fallback",
   documentType |-> template.name,
   confidence |-> 60,
   extractedFields |-> extractFieldsBasic(text, template)]

\* The replies of the chat completion service.  transport: fetch rejects;
\* status: not OK; badjson: the body is no JSON; nochoices: no
\* choices[0].message.content; nojson: the content does not parse;
\* jsonnull: the content parses to null; json: it parses to an object.
LlmFailureKinds ==
  {"transport", "status", "badjson", "nochoices", "nojson", "jsonnull"}

LlmFailures == {[kind |-> k, json |-> [none |-> TRUE]] : k \in LlmFailureKinds}

\* findBestTemplate with a catch block that returns null.
findBestTemplate_NullOnFailure(reply, templates) ==
  IF reply.kind \in LlmFailureKinds
  THEN NoTemplate
  ELSE LET id == Get(reply.json, "bestTemplateId", "<undefined>")
           found == {i \in 1..Len(templates) : templates[i].id = id}
       IN IF found = {} THEN NoTemplate ELSE templates[SetMin(found)]

\* findBestTemplate with templates[0] in place of null for an id that no
\* template has.
findBestTemplate_FirstOnUnresolved(reply, templates) ==
  IF reply.kind \in LlmFailureKinds
  THEN IF Len(templates) > 0 THEN templates[1] ELSE NoTemplate
  ELSE LET id == Get(reply.json, "bestTemplateId", "<undefined>")
           found == {i \in 1..Len(templates) : templates[i].id = id}
       IN IF found # {} THEN templates[SetMin(found)]
          ELSE IF Len(templates) > 0 THEN templates[1] ELSE NoTemplate

\* findBestTemplate, from the reply on.
findBestTemplate(reply, templates) ==
  IF reply.kind \in LlmFailureKinds
  THEN IF Len(templates) > 0 THEN templates[1] ELSE NoTemplate
  ELSE LET id == Get(reply.json, "bestTemplateId", "<undefined>")
           found == {i \in 1..Len(templates) : templates[i].id = id}
       IN IF found = {} THEN NoTemplate ELSE templates[SetMin(found)]

\* extraction.confidence || 0.7
OrConfidence(c, default) == IF c = 0 THEN default ELSE c

\* extractFieldsForTemplate, from the reply on.
extractFieldsForTemplate(reply, text, template) ==
  IF reply.kind \in LlmFailureKinds
  THEN createFallbackFieldExtraction(text, template)
  ELSE [path |-> "primary",
        documentType |->
          OrText(Get(reply.json, "documentType", <<>>), template.name),
        confidence |-> OrConfidence(Get(reply.json, "confidence", 0), 70),
        extractedFields |->
          ensureAllFieldsPresent(Get(reply.json, "extractedFields", <<>>),
                                 template)]

\* Lines 63-70 of analyzeDocument.
analysisResult(fieldExtractionResult, template) ==
  [status |-> "resolved",
   path |-> fieldExtractionResult.path,
   documentType |-> fieldExtractionResult.documentType,
   confidence |-> fieldExtractionResult.confidence,
   extractedFields |-> fieldExtractionResult.extractedFields,
   templateMatch |-> template]

\* The catch block of analyzeDocument: what is thrown inside the try block
\* is answered by createFallbackAnalysis, and what that throws rejects the
\* promise.
catchAnalysis(tried, text, templates) ==
  LET caught == IF tried.status = "thrown"
                THEN createFallbackAnalysis(text, templates)
                ELSE tried
  IN IF caught.status = "thrown" THEN Rejected ELSE caught

(***************************************************************************)
(* The inputs: the texts, the template catalogs and the replies of the     *)
(* inference services.                                                     *)
(***************************************************************************)
ConfPhrases ==
  { <<"ok">>, <<"7">>, <<".">>, <<NL>>, <<"rule100">>, <<"rule399">>,
    <<"ananthapuramu", "police">>,
    <<"police", "officer", "name", ":", "7">> }

StampPhrases ==
  { <<"officer", "commanding", "14th", "bn", "a.p.s.p.", "ananthapuramu">>,
    <<"officer", NL, "commanding", "14th", "bn", "a.p.s.p.",
      "ananthapuramu">>,
    <<"inspector", "general", "police", "apsp", "bns", "amaravathi">>,
    <<"inspector", "general", "police", "apsp", NL, "bns", "amaravathi">>,
    <<"dy", "inspector", "general", "police", "apsp", "battalions",
      "mangalagiri">>,
    <<"sd/-", "ravi", "kumar">>, <<"12/05/2024">>, <<"seal">>, <<NL>> }

DocPhrases ==
  { <<"name", ":", "ravi", "kumar">>, <<"12/05/2024">>,
    <<"station", ":", "guntur">>, <<"rank", "7">>,
    <<"transfer", "order", "posting">>,
    <<"award">> }

ConfTexts == TextsUpTo(ConfPhrases, MaxConfPhrases)
StampTexts == TextsUpTo(StampPhrases, MaxStampPhrases)
DocTexts == TextsUpTo(DocPhrases, MaxDocPhrases)

LeaveTemplate ==
  [id |-> "leave", name |-> <<"leave", "letter">>, category |-> "leave",
   template |->
     << [id |-> "officer_name", label |-> <<"officer", "name">>,
         type |-> "text", required |-> TRUE, options |-> <<>>],
        [id |-> "leave_date", label |-> <<"leave", "date">>,
         type |-> "date", required |-> TRUE, options |-> <<>>],
        [id |-> "leave_type", label |-> <<"leave", "type">>,
         type |-> "select", required |-> FALSE,
         options |-> << <<"casual">>, <<"medical">> >>] >>]

TransferTemplate ==
  [id |-> "transfer", name |-> <<"transfer", "order">>,
   category |-> "posting",
   template |->
     << [id |-> "to_station", label |-> <<"station">>,
         type |-> "select", required |-> TRUE, options |-> <<>>],
        [id |-> "rank_no", label |-> <<"rank", "number">>,
         type |-> "number", required |-> FALSE, options |-> <<>>] >>]

AwardTemplate ==
  [id |-> "award", name |-> <<"award", "certificate">>,
   category |-> "award",
   template |->
     << [id |-> "recipient", label |-> <<"recipient">>,
         type |-> "textarea", required |-> TRUE, options |-> <<>>],
        [id |-> "award_date", label |-> <<"dated">>,
         type |-> "date", required |-> FALSE, options |-> <<>>] >>]

Templates == {LeaveTemplate, TransferTemplate, AwardTemplate}

\* The catalogs of at most n different templates, the empty one included.
RECURSIVE CatalogsUpTo(_)
CatalogsUpTo(n) ==
  IF n = 0 THEN {<<>>}
  ELSE LET shorter == CatalogsUpTo(n - 1)
       IN shorter \cup
          UNION {{Append(c, t) :
                    t \in {u \in Templates : \A i \in 1..Len(c) : c[i] # u}} :
                   c \in shorter}

Catalogs == CatalogsUpTo(MaxCatalog)

StampFailureKinds == {"transport", "status", "badjson", "noresponse"}

StampReplies ==
  {[kind |-> k, json |-> [none |-> TRUE]] :
     k \in StampFailureKinds \cup {"nojson", "json"}}
  \cup
  {[kind |-> "json",
    json |-> [stamp_detected |-> sd,
              stamp_text |-> IF sd THEN <<"seal">> ELSE <<>>,
              stamp_coordinates |->
                IF sd THEN <<10, 20, 30, 40>> ELSE NoCoordinates,
              signature_detected |-> sg,
              signature_coordinates |->
                IF sg THEN <<50, 60, 70, 80>> ELSE NoCoordinates,
              person_name |-> IF sg THEN <<"ravi", "kumar">> ELSE <<>>,
              date_found |-> IF sg THEN <<"12/05/2024">> ELSE <<>>,
              official_stamp_match |-> om,
              matched_stamp_type |-> mt,
              confidence_score |-> cs]] :
     sd \in BOOLEAN, sg \in BOOLEAN, om \in BOOLEAN,
     mt \in {"", OFFICIAL_STAMP_MASTER_LIST[1].name, "UNLISTED STAMP"},
     cs \in {0, 85, 150}}

ClassificationReplies ==
  LlmFailures
  \cup {[kind |-> "json", json |-> [none |-> TRUE]]}
  \cup {[kind |-> "json", json |-> [bestTemplateId |-> id, confidence |-> 85]] :
          id \in {"leave", "transfer", "award", "unknown"}}

\* The field maps of a reply: no key, the first field, every field, every
\* field and a key that is no field of the template, and that key alone.
ReplyKeySets(template) ==
  { {}, {template.template[1].id}, FieldIds(template),
    FieldIds(template) \cup {"zz_extra"}, {"zz_extra"} }

ReplyFieldMaps(template) ==
  {[id \in K |-> v] :
     K \in ReplyKeySets(template),
     v \in {NullV, NumV, StrV(<<"ravi">>)}}

ExtractionReplies(template) ==
  LlmFailures
  \cup {[kind |-> "json", json |-> [none |-> TRUE]]}
  \cup {[kind |-> "json", json |-> [confidence |-> 85]]}
  \cup {[kind |-> "json",
         json |-> [extractedFields |-> m, confidence |-> 85,
                   documentType |-> <<"letter">>]] :
          m \in ReplyFieldMaps(template)}
  \cup {[kind |-> "json",
         json |-> [extractedFields |->
                     [id \in FieldIds(template) |-> StrV(<<"ravi">>)],
                   confidence |-> c]] :
          c \in {0, 500, -20}}

(***************************************************************************)
(* The calls.                                                              *)
(***************************************************************************)
NoReply == [kind |-> "none"]

\* No entry point of the three pipeline services has been called.
PipelineIdle ==
  /\ op = "none"
  /\ pc = "idle"
  /\ extractedText = <<>>
  /\ catalog = <<>>
  /\ ollamaResult = Pending
  /\ templateMatch = NoTemplate
  /\ lastReply = NoReply
  /\ sent = <<>>
  /\ result = Pending

\* No checkServiceHealth call has been made.
NoHealthCall ==
  [service |-> "none", pc |-> "idle", requests |-> 0, reply |-> NoReply,
   returned |-> [type |-> "nothing"]]

HealthIdle == health = NoHealthCall

\* One call of analyzeDocument that has not started.
NotStarted ==
  [pc |-> "idle", text |-> <<>>, given |-> <<>>, templateMatch |-> NoTemplate,
   replies |-> <<>>, result |-> Pending]

NoStampList == [alias |-> FALSE, list |-> <<>>]

\* The session ids generateId('session') hands out.
SessionIds == {"s1", "s2"}

NoSession == [status |-> "absent", past |-> FALSE]

NoUpload == [pc |-> "idle", sessionId |-> "none", from |-> "none"]

\* A MobileUploadPage that is not mounted.
NoPage == [pc |-> "unmounted", sessionId |-> "none", rest |-> <<>>,
           error |-> FALSE, success |-> FALSE, stored |-> 0]

\* last is the sequence of what was done in the last step.
\* What an operation did: the session getSession returned in it ("none"
\* when it was not called, "null", or the status of the session), whether
\* it threw, the file it handed to uploadFile, and the callbacks it invoked
\* with the files they were given.
Did(op_, sessionId, returned, threw, file, calls) ==
  [op |-> op_, sessionId |-> sessionId, returned |-> returned,
   threw |-> threw, file |-> file, calls |-> calls]

NoFile == [size |-> 0, type |-> "none"]


\* new MobileUploadService(): three empty maps.
MobileIdle ==
  /\ activeSessions = [s \in SessionIds |-> NoSession]
  /\ pendingFiles = <<>>
  /\ listeners = <<>>
  /\ upload = NoUpload
  /\ page = NoPage
  /\ last = <<>>

\* new WebSocketService(): no listener, nothing in localStorage.
WsIdle ==
  /\ notifications = <<>>
  /\ wsListeners = <<>>
  /\ delivered = [polled |-> <<>>, calls |-> <<>>]

ConcurrentIdle ==
  /\ invocation = [p \in {1, 2} |-> NotStarted]
  /\ sharedCatalog = <<>>
  /\ registry = OFFICIAL_STAMP_MASTER_LIST
  /\ stampList = NoStampList

Init ==
  /\ PipelineIdle
  /\ HealthIdle
  /\ ConcurrentIdle
  /\ MobileIdle
  /\ WsIdle

\* ollamaService.extractTextFromDocument(file, userId), up to the await of
\* fileToBase64.
CallExtractText ==
  /\ pc = "idle"
  /\ op' = "extractTextFromDocument"
  /\ pc' = "ollama_read"
  /\ UNCHANGED <<extractedText, catalog, ollamaResult, templateMatch,
                 lastReply, sent, result>>
  /\ UNCHANGED <<healthVars, concurrentVars, mobileVars, wsVars>>

\* analyzeStampsAndSignatures calling analyzeWithOllama without waiting for
\* extractTextFromDocument.
CallAnalyzeStamps_SkipExtraction ==
  /\ pc = "idle"
  /\ op' = "analyzeStampsAndSignatures"
  /\ pc' \in {"ollama_read", "stamp_read"}
  /\ UNCHANGED <<extractedText, catalog, ollamaResult, templateMatch,
                 lastReply, sent, result>>
  /\ UNCHANGED <<healthVars, concurrentVars, mobileVars, wsVars>>

\* stampSignatureService.analyzeStampsAndSignatures(file, userId), up to the
\* await of fileToBase64 inside extractTextFromDocument.
CallAnalyzeStamps ==
  /\ pc = "idle"
  /\ op' = "analyzeStampsAndSignatures"
  /\ pc' = "ollama_read"
  /\ UNCHANGED <<extractedText, catalog, ollamaResult, templateMatch,
                 lastReply, sent, result>>
  /\ UNCHANGED <<healthVars, concurrentVars, mobileVars, wsVars>>

\* openAIService.analyzeDocument(extractedText, availableTemplates, userId),
\* up to the fetch of findBestTemplate.
CallAnalyzeDocument ==
  /\ pc = "idle"
  /\ \E text \in DocTexts, templates \in Catalogs :
       /\ extractedText' = text
       /\ catalog' = templates
  /\ op' = "analyzeDocument"
  /\ sent' = Append(sent, "classify")
  /\ pc' = "classify_wait"
  /\ UNCHANGED <<ollamaResult, templateMatch, lastReply, result>>
  /\ UNCHANGED <<healthVars, concurrentVars, mobileVars, wsVars>>

\* What analyzeStampsAndSignatures returns when analysisResult is the
\* outcome of analyzeWithOllama.
stampResult(analysis, text) ==
  [k \in (DOMAIN analysis) \cup {"status", "ExtractedText"} |->
     CASE k = "status" -> "resolved"
       [] k = "ExtractedText" -> text
       [] OTHER -> analysis[k]]

\* The catch block of analyzeStampsAndSignatures throwing again.
caughtStampResult_Rethrow == Rejected

\* The catch block of analyzeStampsAndSignatures.
caughtStampResult ==
  [k \in (DOMAIN DefaultStampResult) \cup {"status"} |->
     IF k = "status" THEN "resolved" ELSE DefaultStampResult[k]]

\* The end of extractTextFromDocument, in the entry point that called it.
AfterExtraction(outcome) ==
  /\ ollamaResult' = outcome
  /\ IF op = "extractTextFromDocument"
     THEN /\ result' = outcome
          /\ pc' = "done"
          /\ UNCHANGED extractedText
     ELSE IF outcome.status = "rejected"
     THEN /\ result' = caughtStampResult
          /\ pc' = "done"
          /\ UNCHANGED extractedText
     ELSE /\ extractedText' = outcome.extractedText
          /\ pc' = "stamp_read"
          /\ UNCHANGED result

\* fileToBase64 of OllamaService settles: the request is sent, or the
\* rejection ends extractTextFromDocument.
FileRead ==
  /\ pc = "ollama_read"
  /\ \E ok \in BOOLEAN :
       IF ok
       THEN /\ sent' = Append(sent, "extract_text")
            /\ pc' = "ollama_wait"
            /\ UNCHANGED <<extractedText, ollamaResult, result>>
       ELSE /\ AfterExtraction(Rejected)
            /\ UNCHANGED sent
  /\ UNCHANGED <<op, catalog, templateMatch, lastReply>>
  /\ UNCHANGED <<healthVars, concurrentVars, mobileVars, wsVars>>

\* The vision service answers the text extraction request.
ReceiveText ==
  /\ pc = "ollama_wait"
  /\ \E reply \in OllamaReplies(IF op = "extractTextFromDocument"
                                THEN ConfTexts ELSE StampTexts) :
       /\ lastReply' = reply
       /\ AfterExtraction(extractTextFromDocument(reply))
  /\ UNCHANGED <<op, catalog, templateMatch, sent>>
  /\ UNCHANGED <<healthVars, concurrentVars, mobileVars, wsVars>>

\* fileToBase64 of analyzeWithOllama settles, outside its try block.
StampFileRead ==
  /\ pc = "stamp_read"
  /\ \E ok \in BOOLEAN :
       IF ok
       THEN /\ sent' = Append(sent, "analyze_stamp")
            /\ pc' = "stamp_wait"
            /\ UNCHANGED result
       ELSE /\ result' = caughtStampResult
            /\ pc' = "done"
            /\ UNCHANGED sent
  /\ UNCHANGED <<op, extractedText, catalog, ollamaResult, templateMatch,
                 lastReply>>
  /\ UNCHANGED <<healthVars, concurrentVars, mobileVars, wsVars>>

\* The vision service answers the stamp and signature request.
ReceiveStampAnalysis ==
  /\ pc = "stamp_wait"
  /\ \E reply \in StampReplies :
       /\ lastReply' = reply
       /\ result' = stampResult(analyzeWithOllama(reply, extractedText),
                                extractedText)
  /\ pc' = "done"
  /\ UNCHANGED <<op, extractedText, catalog, ollamaResult, templateMatch,
                 sent>>
  /\ UNCHANGED <<healthVars, concurrentVars, mobileVars, wsVars>>

\* The chat completion service answers the classification request.
ReceiveClassification ==
  /\ pc = "classify_wait"
  /\ \E reply \in ClassificationReplies :
       /\ lastReply' = reply
       /\ templateMatch' = findBestTemplate(reply, catalog)
  /\ IF templateMatch' = NoTemplate
     THEN /\ result' = catchAnalysis(
                         createFallbackAnalysis(extractedText, catalog),
                         extractedText, catalog)
          /\ pc' = "done"
          /\ UNCHANGED sent
     ELSE /\ sent' = Append(sent, "extract_fields")
          /\ pc' = "extract_wait"
          /\ UNCHANGED result
  /\ UNCHANGED <<op, extractedText, catalog, ollamaResult>>
  /\ UNCHANGED <<healthVars, concurrentVars, mobileVars, wsVars>>

\* extractFieldsForTemplate sending its request once more after a failure.
ReceiveExtraction_Retry ==
  /\ pc = "extract_wait"
  /\ \E reply \in ExtractionReplies(templateMatch) :
       /\ lastReply' = reply
       /\ IF reply.kind \in LlmFailureKinds /\ Len(sent) < 3
          THEN /\ sent' = Append(sent, "extract_fields")
               /\ pc' = "extract_wait"
               /\ UNCHANGED result
          ELSE /\ result' = catchAnalysis(
                              analysisResult(
                                extractFieldsForTemplate(reply, extractedText,
                                                         templateMatch),
                                templateMatch),
                              extractedText, catalog)
               /\ pc' = "done"
               /\ UNCHANGED sent
  /\ UNCHANGED <<op, extractedText, catalog, ollamaResult, templateMatch>>
  /\ UNCHANGED <<healthVars, concurrentVars, mobileVars, wsVars>>

\* The chat completion service answers the field extraction request.
ReceiveExtraction ==
  /\ pc = "extract_wait"
  /\ \E reply \in ExtractionReplies(templateMatch) :
       /\ lastReply' = reply
       /\ result' = catchAnalysis(
                      analysisResult(
                        extractFieldsForTemplate(reply, extractedText,
                                                 templateMatch),
                        templateMatch),
                      extractedText, catalog)
  /\ pc' = "done"
  /\ UNCHANGED <<op, extractedText, catalog, ollamaResult, templateMatch,
                 sent>>
  /\ UNCHANGED <<healthVars, concurrentVars, mobileVars, wsVars>>

Next ==
  \/ CallExtractText
  \/ CallAnalyzeStamps
  \/ CallAnalyzeDocument
  \/ FileRead
  \/ ReceiveText
  \/ StampFileRead
  \/ ReceiveStampAnalysis
  \/ ReceiveClassification
  \/ ReceiveExtraction

Spec == Init /\ [][Next]_vars

\* The states in which a request to an inference service is outstanding:
\* the await of fetch in processWithGemma3, analyzeWithOllama,
\* findBestTemplate and extractFieldsForTemplate.
ServiceWaits == {"ollama_wait", "stamp_wait", "classify_wait", "extract_wait"}

\* The service accepted the request and never answers it.  The calls of
\* fetch pass no signal and no timer is set, so nothing settles the awaited
\* promise: the call stays where it is.
NeverAnswered ==
  /\ pc \in ServiceWaits
  /\ pc' = "hung"
  /\ UNCHANGED <<op, extractedText, catalog, ollamaResult, templateMatch,
                 lastReply, sent, result>>
  /\ UNCHANGED <<healthVars, concurrentVars, mobileVars, wsVars>>

LiveNext ==
  \/ Next
  \/ NeverAnswered

\* The event loop runs every continuation that is ready.
LiveSpec == Init /\ [][LiveNext]_vars /\ WF_vars(LiveNext)

(***************************************************************************)
(* checkServiceHealth of the three services.  A reply is the failure of    *)
(* the transport or an HTTP response: a status and a body.                 *)
(***************************************************************************)
MaxModels == 2

HealthServices == {"ollama", "openai", "stamp"}

\* One entry of the models array of GET /api/tags: null, or an object whose
\* name is missing, a string or a number.
ModelEntries ==
  { [t |-> "null"],
    [t |-> "object", name |-> [t |-> "undefined"]],
    [t |-> "object", name |-> [t |-> "string", v |-> ""]],
    [t |-> "object", name |-> [t |-> "string", v |-> "llama3:8b"]],
    [t |-> "object", name |-> [t |-> "string", v |-> "gemma3:4b"]],
    [t |-> "object", name |-> [t |-> "number"]] }

RECURSIVE ModelLists(_)
ModelLists(n) ==
  IF n = 0 THEN {<<>>}
  ELSE ModelLists(n - 1)
       \cup {Append(l, m) : l \in {x \in ModelLists(n - 1) : Len(x) = n - 1},
                            m \in ModelEntries}

\* The bodies of a response: no JSON, the JSON null, an object without
\* models, with models: null, with models that is no array, with an array.
HealthBodies ==
  { [t |-> "badjson"], [t |-> "null"],
    [t |-> "object", models |-> [t |-> "undefined"]],
    [t |-> "object", models |-> [t |-> "null"]],
    [t |-> "object", models |-> [t |-> "string"]] }
  \cup {[t |-> "object", models |-> [t |-> "array", v |-> l]] :
          l \in ModelLists(MaxModels)}

HealthReplies ==
  {[kind |-> "transport"]}
  \cup {[kind |-> "http", status |-> c, body |-> b] :
          c \in {200, 204, 404, 500}, b \in HealthBodies}

\* response.ok
ResponseOk(reply) == reply.status \in 200..299

BooleanV(b) == [type |-> "boolean", value |-> b]
UndefinedV == [type |-> "undefined"]

\* model.name.includes('gemma3')
IncludesGemma3(name) == name \in {"gemma3", "gemma3:4b", "gemma3:latest"}

\* model => model.name && model.name.includes('gemma3'): truthy, falsy, or
\* a TypeError (model is null, or name has no includes).
HasGemma3(model) ==
  IF model.t = "null" THEN "throws"
  ELSE IF model.name.t = "undefined" THEN "falsy"
  ELSE IF model.name.t = "number" THEN "throws"
  ELSE IF model.name.v = "" THEN "falsy"
  ELSE IF IncludesGemma3(model.name.v) THEN "truthy" ELSE "falsy"

\* models.some(...), from the i-th entry on: some stops at the first entry
\* the callback holds of.
RECURSIVE SomeFrom(_, _)
SomeFrom(models, i) ==
  IF i > Len(models) THEN "falsy"
  ELSE IF HasGemma3(models[i]) = "falsy" THEN SomeFrom(models, i + 1)
  ELSE HasGemma3(models[i])

\* OllamaService.checkServiceHealth, from the reply on.
ollamaCheckServiceHealth(reply) ==
  IF reply.kind = "transport" THEN BooleanV(FALSE)
  ELSE IF ~ResponseOk(reply) THEN BooleanV(FALSE)
  ELSE IF reply.body.t \in {"badjson", "null"} THEN BooleanV(FALSE)
  ELSE IF reply.body.models.t \in {"undefined", "null"} THEN UndefinedV
  ELSE IF reply.body.models.t # "array" THEN BooleanV(FALSE)
  ELSE BooleanV(SomeFrom(reply.body.models.v, 1) = "truthy")

\* OpenAIService.checkServiceHealth, from the reply on.
openAICheckServiceHealth(reply) ==
  IF reply.kind = "transport" THEN BooleanV(FALSE)
  ELSE BooleanV(ResponseOk(reply))

\* StampSignatureService.checkServiceHealth: the value of the Ollama check.
stampCheckServiceHealth(reply) == ollamaCheckServiceHealth(reply)

checkServiceHealth(service, reply) ==
  CASE service = "ollama" -> ollamaCheckServiceHealth(reply)
    [] service = "openai" -> openAICheckServiceHealth(reply)
    [] OTHER -> stampCheckServiceHealth(reply)

\* checkServiceHealth() is called: the request is sent.
CallCheckServiceHealth ==
  /\ health.pc \in {"idle", "done"}
  /\ \E service \in HealthServices :
       health' = [service |-> service, pc |-> "wait", requests |-> 1,
                  reply |-> NoReply, returned |-> [type |-> "nothing"]]
  /\ UNCHANGED <<pipelineVars, concurrentVars, mobileVars, wsVars>>

\* The request is answered, or fails.
ReceiveHealthReply ==
  /\ health.pc = "wait"
  /\ \E reply \in HealthReplies :
       health' = [health EXCEPT
                    !.pc = "done",
                    !.reply = reply,
                    !.returned = checkServiceHealth(health.service, reply)]
  /\ UNCHANGED <<pipelineVars, concurrentVars, mobileVars, wsVars>>

HealthNext ==
  \/ CallCheckServiceHealth
  \/ ReceiveHealthReply

HealthSpec == Init /\ [][HealthNext]_vars

(***************************************************************************)
(* Two calls of analyzeDocument in one event loop, given the same catalog  *)
(* array, and a caller of getMasterStampList.  A call is suspended at each *)
(* await of fetch; between two awaits it runs alone.                       *)
(***************************************************************************)
\* getMasterStampList of a list that aliases the records of the registry.
getMasterStampList_SameRecords(list) == [alias |-> TRUE, list |-> list]

\* getMasterStampList: map builds a new array of new {id, name} objects.
getMasterStampList(list) ==
  [alias |-> FALSE,
   list |-> [i \in 1..Len(list) |-> [id |-> list[i].id, name |-> list[i].name]]]

\* The replies the two calls may get.
ConcurrentClassifications ==
  {r \in ClassificationReplies :
     \/ r.kind = "transport"
     \/ /\ r.kind = "json"
        /\ Get(r.json, "bestTemplateId", "leave") \in {"leave", "unknown"}}

ConcurrentExtractions(template) ==
  {r \in ExtractionReplies(template) :
     \/ r.kind = "transport"
     \/ /\ r.kind = "json"
        /\ "extractedFields" \in DOMAIN r.json
        /\ "documentType" \in DOMAIN r.json
        /\ DOMAIN r.json.extractedFields \in {{}, FieldIds(template)}
        /\ \A id \in DOMAIN r.json.extractedFields :
             r.json.extractedFields[id] # NumV}

\* analyzeDocument(extractedText, availableTemplates, userId) of call p, up
\* to the await of the classification request.
StartAnalyzeDocument(p) ==
  /\ invocation[p].pc = "idle"
  /\ \E text \in {<<>>, <<"transfer", "order", "posting">>} :
       invocation' = [invocation EXCEPT
                        ![p] = [@ EXCEPT !.pc = "classify_wait",
                                         !.text = text,
                                         !.given = sharedCatalog]]
  /\ UNCHANGED <<sharedCatalog, registry, stampList>>
  /\ UNCHANGED <<pipelineVars, healthVars, mobileVars, wsVars>>

\* Call p from the reply to its classification request to its next await,
\* or to its return.
ClassificationArrives(p) ==
  /\ invocation[p].pc = "classify_wait"
  /\ \E reply \in ConcurrentClassifications :
       LET match == findBestTemplate(reply, sharedCatalog)
           text == invocation[p].text
       IN invocation' =
            [invocation EXCEPT
               ![p] = [@ EXCEPT
                  !.replies = <<reply>>,
                  !.templateMatch = match,
                  !.pc = IF match = NoTemplate THEN "done"
                         ELSE "extract_wait",
                  !.result =
                    IF match = NoTemplate
                    THEN catchAnalysis(
                           createFallbackAnalysis(text, sharedCatalog),
                           text, sharedCatalog)
                    ELSE Pending]]
  /\ UNCHANGED <<sharedCatalog, registry, stampList>>
  /\ UNCHANGED <<pipelineVars, healthVars, mobileVars, wsVars>>

\* Call p from the reply to its field extraction request to its return.
ExtractionArrives(p) ==
  /\ invocation[p].pc = "extract_wait"
  /\ \E reply \in ConcurrentExtractions(invocation[p].templateMatch) :
       LET match == invocation[p].templateMatch
           text == invocation[p].text
       IN invocation' =
            [invocation EXCEPT
               ![p] = [@ EXCEPT
                  !.replies = Append(@, reply),
                  !.pc = "done",
                  !.result =
                    catchAnalysis(
                      analysisResult(
                        extractFieldsForTemplate(reply, text, match), match),
                      text, sharedCatalog)]]
  /\ UNCHANGED <<sharedCatalog, registry, stampList>>
  /\ UNCHANGED <<pipelineVars, healthVars, mobileVars, wsVars>>

\* stampSignatureService.getMasterStampList()
CallGetMasterStampList ==
  /\ stampList.list = <<>>
  /\ stampList' = getMasterStampList(registry)
  /\ UNCHANGED <<invocation, sharedCatalog, registry>>
  /\ UNCHANGED <<pipelineVars, healthVars, mobileVars, wsVars>>

\* The caller writes to the first record of the list it was given; a
\* write to a record that is a record of the registry is seen there.
CallerEditsStampList ==
  /\ stampList.list # <<>>
  /\ stampList.list[1].name # "edited"
  /\ stampList' = [stampList EXCEPT !.list[1].name = "edited"]
  /\ registry' = IF stampList.alias
                 THEN [registry EXCEPT ![1].name = "edited"]
                 ELSE registry
  /\ UNCHANGED <<invocation, sharedCatalog>>
  /\ UNCHANGED <<pipelineVars, healthVars, mobileVars, wsVars>>

\* The caller holds a catalog: none, one or two templates.
ConcurrentInit ==
  /\ PipelineIdle
  /\ HealthIdle
  /\ MobileIdle
  /\ WsIdle
  /\ invocation = [p \in {1, 2} |-> NotStarted]
  /\ sharedCatalog \in {<<>>, <<TransferTemplate>>,
                        <<LeaveTemplate, TransferTemplate>>}
  /\ registry = OFFICIAL_STAMP_MASTER_LIST
  /\ stampList = NoStampList

ConcurrentNext ==
  \/ \E p \in {1, 2} : StartAnalyzeDocument(p)
  \/ \E p \in {1, 2} : ClassificationArrives(p)
  \/ \E p \in {1, 2} : ExtractionArrives(p)
  \/ CallGetMasterStampList
  \/ CallerEditsStampList

ConcurrentSpec == ConcurrentInit /\ [][ConcurrentNext]_vars

(***************************************************************************)
(* MobileUploadService and MobileUploadPage.  The clock only moves         *)
(* forward: a session is past its expiresAt or not yet.  pendingFiles is   *)
(* kept in insertion order, which is the order of uploadedAt, so the files *)
(* older than seven days are the first ones; a file is named by its place. *)
(***************************************************************************)
MaxFiles == 2
MaxBatch == 2

\* The callbacks: the one of the page and the one of the PC interface.
ListenerIds == {"page", "pc"}

\* The files a phone may select: size in MB, and MIME type.
FileKinds ==
  { [size |-> 1, type |-> "image/png"],
    [size |-> 10, type |-> "application/pdf"],
    [size |-> 11, type |-> "image/png"],
    [size |-> 1, type |-> "text/plain"] }

RECURSIVE Batches(_)
Batches(n) ==
  IF n = 0 THEN {<<>>}
  ELSE Batches(n - 1)
       \cup {Append(b, f) : b \in {x \in Batches(n - 1) : Len(x) = n - 1},
                            f \in FileKinds}

\* The two tests of uploadFiles: neither throws.
Acceptable(file) ==
  /\ ~(file.size > 10)
  /\ ~(file.type \notin {"image/png", "image/jpeg"}
       /\ file.type # "application/pdf")

\* getSessionFiles(sessionId), as the set of the places of the files.
getSessionFiles(files, sessionId) ==
  {f \in 1..Len(files) : files[f].sessionId = sessionId}

\* notifyListeners(sessionId): every callback is called with the files of
\* that session.
notifyListeners(registered, files, sessionId) ==
  {[listener |-> l, files |-> getSessionFiles(files, sessionId)] :
     l \in DOMAIN registered}

\* expireSession(sessionId)
expireSession(sessions, sessionId) ==
  IF sessions[sessionId].status = "absent" THEN sessions
  ELSE [sessions EXCEPT ![sessionId].status = "expired"]

\* A getSession that returns every session it finds.
getSession_NoExpiryTest(sessions, sessionId) ==
  [session |-> IF sessionId \notin DOMAIN sessions
                  \/ sessions[sessionId].status = "absent"
               THEN "null"
               ELSE sessions[sessionId].status,
   sessions |-> sessions]

\* getSession(sessionId): what it returns ("null", or the status of the
\* session it returns) and the sessions it leaves.
getSession(sessions, sessionId) ==
  IF sessionId \notin DOMAIN sessions
     \/ sessions[sessionId].status = "absent"
  THEN [session |-> "null", sessions |-> sessions]
  ELSE IF sessions[sessionId].past
  THEN [session |-> "null", sessions |-> expireSession(sessions, sessionId)]
  ELSE [session |-> sessions[sessionId].status, sessions |-> sessions]

\* The loop of uploadFiles over the files it has not handled yet, of which
\* `stored` went before, to its next await or to its end: the page, the
\* upload in flight, the sessions and what was done.
LoopFrom(sessions, files, stored) ==
  LET pg == [page EXCEPT !.rest = <<>>, !.stored = stored,
                         !.error = FALSE, !.success = FALSE]
      got == getSession(sessions, page.sessionId)
  IN IF files = <<>>
     THEN [page |-> [pg EXCEPT !.pc = "ready", !.success = TRUE],
           upload |-> NoUpload, sessions |-> sessions, did |-> <<>>]
     ELSE IF ~Acceptable(Head(files))
     THEN [page |-> [pg EXCEPT !.pc = "ready", !.error = TRUE],
           upload |-> NoUpload, sessions |-> sessions,
           did |-> <<Did("validate", page.sessionId, "none", TRUE,
                         Head(files), {})>>]
     ELSE IF got.session = "null"
     THEN [page |-> [pg EXCEPT !.pc = "ready", !.error = TRUE],
           upload |-> NoUpload, sessions |-> got.sessions,
           did |-> <<Did("uploadFile", page.sessionId, "null", TRUE,
                         Head(files), {})>>]
     ELSE [page |-> [pg EXCEPT !.pc = "uploading", !.rest = Tail(files)],
           upload |-> [pc |-> "reading", sessionId |-> page.sessionId,
                       from |-> "page"],
           sessions |-> got.sessions,
           did |-> <<Did("uploadFile", page.sessionId, got.session, FALSE,
                         Head(files), {})>>]

\* createUploadSession(userId, expirationHours), with a new session id.
CreateUploadSession ==
  /\ \E s \in SessionIds :
       /\ activeSessions[s].status = "absent"
       /\ activeSessions' =
            [activeSessions EXCEPT ![s] = [status |-> "active", past |-> FALSE]]
       /\ last' = <<Did("createUploadSession", s, "none", FALSE, NoFile, {})>>
  /\ UNCHANGED <<pendingFiles, listeners, upload, page>>
  /\ UNCHANGED <<pipelineVars, healthVars, concurrentVars, wsVars>>

\* The clock passes the expiresAt of a session.
TimePasses ==
  /\ \E s \in SessionIds :
       /\ activeSessions[s].status # "absent"
       /\ ~activeSessions[s].past
       /\ activeSessions' = [activeSessions EXCEPT ![s].past = TRUE]
  /\ last' = <<>>
  /\ UNCHANGED <<pendingFiles, listeners, upload, page>>
  /\ UNCHANGED <<pipelineVars, healthVars, concurrentVars, wsVars>>

\* getSession(sessionId), called from outside the service.
GetSession ==
  /\ \E s \in SessionIds \cup {"unknown"} :
       LET got == getSession(activeSessions, s)
       IN /\ activeSessions' = got.sessions
          /\ last' = <<Did("getSession", s, got.session, FALSE, NoFile, {})>>
  /\ UNCHANGED <<pendingFiles, listeners, upload, page>>
  /\ UNCHANGED <<pipelineVars, healthVars, concurrentVars, wsVars>>

\* uploadFile(sessionId, file), called from outside the page, up to the
\* await of fileToBase64.
UploadFile ==
  /\ upload.pc = "idle"
  /\ page.pc # "uploading"
  /\ Len(pendingFiles) < MaxFiles
  /\ \E s \in SessionIds \cup {"unknown"}, file \in FileKinds :
       LET got == getSession(activeSessions, s)
       IN /\ activeSessions' = got.sessions
          /\ upload' = IF got.session = "null" THEN NoUpload
                       ELSE [pc |-> "reading", sessionId |-> s,
                             from |-> "direct"]
          /\ last' = <<Did("uploadFile", s, got.session,
                           got.session = "null", file, {})>>
  /\ UNCHANGED <<pendingFiles, listeners, page>>
  /\ UNCHANGED <<pipelineVars, healthVars, concurrentVars, wsVars>>

\* uploadFile from the end of fileToBase64 on: the reader failed and the
\* call rejects, or the file is stored and the listeners are notified (the
\* simulated saveFileToSupabase awaits nothing that can be delayed).  For a
\* call of the page the loop of uploadFiles goes on in the same turn.
FileReadDone ==
  /\ upload.pc = "reading"
  /\ \E ok \in BOOLEAN :
       LET sid == upload.sessionId
           files == Append(pendingFiles,
                           [sessionId |-> sid, status |-> "uploaded"])
           stored == Did("stored", sid, "none", FALSE, NoFile,
                         notifyListeners(listeners, files, sid))
           failed == Did("uploadFile", sid, "none", TRUE, NoFile, {})
           on == LoopFrom(activeSessions, page.rest, page.stored + 1)
       IN IF ~ok
          THEN /\ upload' = NoUpload
               /\ last' = <<failed>>
               /\ page' = IF upload.from = "page"
                          THEN [page EXCEPT !.pc = "ready", !.error = TRUE]
                          ELSE page
               /\ UNCHANGED <<activeSessions, pendingFiles>>
          ELSE IF upload.from = "direct"
          THEN /\ pendingFiles' = files
               /\ upload' = NoUpload
               /\ last' = <<stored>>
               /\ UNCHANGED <<activeSessions, page>>
          ELSE /\ pendingFiles' = files
               /\ upload' = on.upload
               /\ page' = on.page
               /\ activeSessions' = on.sessions
               /\ last' = <<stored>> \o on.did
  /\ UNCHANGED listeners
  /\ UNCHANGED <<pipelineVars, healthVars, concurrentVars, wsVars>>

\* subscribeToSession(sessionId, callback) of the PC interface: the
\* callback is stored under a new listener id and called with the files of
\* the session.
Subscribe ==
  /\ "pc" \notin DOMAIN listeners
  /\ \E s \in SessionIds :
       /\ listeners' = listeners @@ ("pc" :> s)
       /\ last' = <<Did("subscribeToSession", s, "none", FALSE, NoFile,
                        {[listener |-> "pc",
                          files |-> getSessionFiles(pendingFiles, s)]})>>
  /\ UNCHANGED <<activeSessions, pendingFiles, upload, page>>
  /\ UNCHANGED <<pipelineVars, healthVars, concurrentVars, wsVars>>

\* The function subscribeToSession returned is called.
Unsubscribe ==
  /\ "pc" \in DOMAIN listeners
  /\ listeners' = [l \in DOMAIN listeners \ {"pc"} |-> listeners[l]]
  /\ last' = <<Did("unsubscribe", listeners["pc"], "none", FALSE, NoFile, {})>>
  /\ UNCHANGED <<activeSessions, pendingFiles, upload, page>>
  /\ UNCHANGED <<pipelineVars, healthVars, concurrentVars, wsVars>>

\* The effect of MobileUploadPage at mount: the session is validated, and
\* a valid one is subscribed to.
MountPage ==
  /\ page.pc = "unmounted"
  /\ \E s \in SessionIds \cup {"unknown"} :
       LET got == getSession(activeSessions, s)
           asked == Did("getSession", s, got.session, FALSE, NoFile, {})
       IN /\ activeSessions' = got.sessions
          /\ IF got.session = "null"
             THEN /\ page' = [NoPage EXCEPT !.pc = "invalid", !.sessionId = s,
                                            !.error = TRUE]
                  /\ last' = <<asked>>
                  /\ UNCHANGED listeners
             ELSE /\ page' = [NoPage EXCEPT !.pc = "ready", !.sessionId = s]
                  /\ listeners' = listeners @@ ("page" :> s)
                  /\ last' =
                       <<asked,
                         Did("subscribeToSession", s, "none", FALSE, NoFile,
                             {[listener |-> "page",
                               files |-> getSessionFiles(pendingFiles, s)]})>>
  /\ UNCHANGED <<pendingFiles, upload>>
  /\ UNCHANGED <<pipelineVars, healthVars, concurrentVars, wsVars>>

\* The page is unmounted: the effect's cleanup unsubscribes.
UnmountPage ==
  /\ page.pc \in {"invalid", "ready"}
  /\ page' = NoPage
  /\ listeners' = [l \in DOMAIN listeners \ {"page"} |-> listeners[l]]
  /\ last' = <<Did("unsubscribe", page.sessionId, "none", FALSE, NoFile, {})>>
  /\ UNCHANGED <<activeSessions, pendingFiles, upload>>
  /\ UNCHANGED <<pipelineVars, healthVars, concurrentVars, wsVars>>

\* uploadFiles(filesToUpload) of a page with a session, up to its first
\* await or its end.
PageUploadFiles ==
  /\ page.pc = "ready"
  /\ upload.pc = "idle"
  /\ \E batch \in Batches(MaxBatch) \ {<<>>} :
       /\ Len(pendingFiles) + Len(batch) <= MaxFiles
       /\ LET on == LoopFrom(activeSessions, batch, 0)
          IN /\ page' = on.page
             /\ upload' = on.upload
             /\ activeSessions' = on.sessions
             /\ last' = on.did
  /\ UNCHANGED <<pendingFiles, listeners>>
  /\ UNCHANGED <<pipelineVars, healthVars, concurrentVars, wsVars>>

\* markFileAsProcessed(fileId) and markFileAsFailed(fileId, error): for a
\* file of the map the status is set and the listeners are notified.
MarkFileAs(status) ==
  /\ \E f \in 1..MaxFiles :
       IF f \in 1..Len(pendingFiles)
       THEN /\ pendingFiles' = [pendingFiles EXCEPT ![f].status = status]
            /\ last' = <<Did("markFileAs", pendingFiles[f].sessionId, "none",
                             FALSE, NoFile,
                             notifyListeners(listeners, pendingFiles',
                                             pendingFiles[f].sessionId))>>
       ELSE /\ UNCHANGED pendingFiles
            /\ last' = <<Did("markFileAs", "none", "none", FALSE, NoFile, {})>>
  /\ UNCHANGED <<activeSessions, listeners, upload, page>>
  /\ UNCHANGED <<pipelineVars, healthVars, concurrentVars, wsVars>>

\* cleanup(): every session past its expiresAt is expired, and the files
\* older than seven days, the first k, are deleted.
Cleanup ==
  /\ activeSessions' =
       [s \in SessionIds |->
          IF activeSessions[s].status # "absent" /\ activeSessions[s].past
          THEN [activeSessions[s] EXCEPT !.status = "expired"]
          ELSE activeSessions[s]]
  /\ \E k \in 0..Len(pendingFiles) :
       pendingFiles' = SubSeq(pendingFiles, k + 1, Len(pendingFiles))
  /\ last' = <<Did("cleanup", "none", "none", FALSE, NoFile, {})>>
  /\ UNCHANGED <<listeners, upload, page>>
  /\ UNCHANGED <<pipelineVars, healthVars, concurrentVars, wsVars>>

\* A file_uploaded or file_processed event of the WebSocket service for a
\* session that was created: the service notifies its listeners.
WsNotification ==
  /\ \E s \in SessionIds :
       /\ activeSessions[s].status # "absent"
       /\ last' = <<Did("wsNotification", s, "none", FALSE, NoFile,
                        notifyListeners(listeners, pendingFiles, s))>>
  /\ UNCHANGED <<activeSessions, pendingFiles, listeners, upload, page>>
  /\ UNCHANGED <<pipelineVars, healthVars, concurrentVars, wsVars>>

MobileNext ==
  \/ CreateUploadSession
  \/ TimePasses
  \/ GetSession
  \/ UploadFile
  \/ FileReadDone
  \/ Subscribe
  \/ Unsubscribe
  \/ MountPage
  \/ UnmountPage
  \/ PageUploadFiles
  \/ MarkFileAs("processed")
  \/ MarkFileAs("failed")
  \/ Cleanup
  \/ WsNotification

MobileSpec == Init /\ [][MobileNext]_vars

\* The operations that read or write activeSessions, and the uploads.
SessionNext ==
  \/ CreateUploadSession
  \/ TimePasses
  \/ GetSession
  \/ UploadFile
  \/ FileReadDone
  \/ MountPage
  \/ UnmountPage
  \/ PageUploadFiles
  \/ Cleanup

SessionSpec == Init /\ [][SessionNext]_vars

(***************************************************************************)
(* WebSocketService in its local simulation: the socket is created with    *)
(* autoConnect: false and never connected, so every notification goes      *)
(* through localStorage and the polling of setupLocalSimulation.           *)
(***************************************************************************)
MaxNotifications == 2
MaxWsListeners == 2

\* onFileUploaded(callback) and onFileProcessed(callback): addEventListener
\* appends the callback to the list of the event type.
OnEvent(eventType) ==
  /\ Len(wsListeners) < MaxWsListeners
  /\ wsListeners' = Append(wsListeners, eventType)
  /\ UNCHANGED <<notifications, delivered>>
  /\ UNCHANGED <<pipelineVars, healthVars, concurrentVars, mobileVars>>

\* notifyFileUploaded(sessionId, fileData) and notifyFileProcessed(sessionId,
\* fileData): storeLocalNotification appends the message to the array
\* under 'mobile_upload_notifications'.
NotifyFile(type) ==
  /\ Len(notifications) + Len(delivered.polled) < MaxNotifications
  /\ \E s \in SessionIds, fileData \in {"fileA", "fileB"} :
       notifications' =
         Append(notifications,
                [type |-> type, sessionId |-> s, data |-> fileData])
  /\ UNCHANGED <<wsListeners, delivered>>
  /\ UNCHANGED <<pipelineVars, healthVars, concurrentVars, mobileVars>>

\* checkForLocalUpdates(): one update for each stored notification, of
\* type 'file_uploaded' and with the notification's fileData.
checkForLocalUpdates(stored) ==
  [k \in 1..Len(stored) |->
     [type |-> "file_uploaded",
      sessionId |-> stored[k].sessionId,
      data |-> Get(stored[k], "fileData", "undefined")]]

\* notifyListeners(update.type, update) for the updates from the k-th on:
\* the callbacks of the update's type are called in their order.  An update
\* is numbered by its place among all notifications taken so far.
RECURSIVE DeliverFrom(_, _, _, _)
DeliverFrom(updates, k, registered, taken) ==
  IF k > Len(updates) THEN <<>>
  ELSE LET Listens(c) == c.event = updates[k].type
       IN SelectSeq([l \in 1..Len(registered) |->
                       [listener |-> l, event |-> registered[l],
                        id |-> taken + k, update |-> updates[k]]],
                    Listens)
          \o DeliverFrom(updates, k + 1, registered, taken)

\* The interval of setupLocalSimulation fires with notifications stored:
\* they are delivered and the key is removed.
Poll ==
  /\ notifications # <<>>
  /\ delivered' =
       [polled |->
          delivered.polled
          \o [k \in 1..Len(notifications) |->
                [type |-> notifications[k].type,
                 sessionId |-> notifications[k].sessionId,
                 data |-> notifications[k].data,
                 listeners |-> Len(wsListeners)]],
        calls |->
          delivered.calls
          \o DeliverFrom(checkForLocalUpdates(notifications), 1, wsListeners,
                         Len(delivered.polled))]
  /\ notifications' = <<>>
  /\ UNCHANGED wsListeners
  /\ UNCHANGED <<pipelineVars, healthVars, concurrentVars, mobileVars>>

WsNext ==
  \/ OnEvent("file_uploaded")
  \/ OnEvent("file_processed")
  \/ NotifyFile("file_uploaded")
  \/ NotifyFile("file_processed")
  \/ Poll

WsSpec == Init /\ [][WsNext]_vars

(***************************************************************************)
(* The claims.                                                             *)
(***************************************************************************)
DocumentDone == op = "analyzeDocument" /\ pc = "done"
DocumentResolved == DocumentDone /\ result.status = "resolved"
StampsDone == op = "analyzeStampsAndSignatures" /\ pc = "done"

\* The field map of the model's reply to the field extraction request.
ReplyFields == Get(lastReply.json, "extractedFields", <<>>)

\* C1: the field map analyzeDocument returns holds a key for every field id
\* of the chosen template, whatever the reply of the model was.
C1_FieldCompleteness ==
  DocumentResolved =>
    FieldIds(result.templateMatch) \subseteq DOMAIN result.extractedFields

\* A partial reply was completed: the model gave an empty field map.
C1_Witness ==
  /\ DocumentResolved
  /\ result.path = "primary"
  /\ "extractedFields" \in DOMAIN lastReply.json
  /\ DOMAIN ReplyFields = {}
  /\ DOMAIN result.extractedFields = FieldIds(result.templateMatch)

\* C2, as claimed: the keys of the field map are exactly the field ids of
\* the template.
C2_ExactKeys ==
  DocumentResolved =>
    DOMAIN result.extractedFields = FieldIds(result.templateMatch)

\* C2, amended: on the fallback paths the keys are exactly the field ids; on
\* the primary path they are the field ids and the keys of the reply.
C2_KeysOfTemplateAndReply ==
  DocumentResolved =>
    DOMAIN result.extractedFields =
      FieldIds(result.templateMatch)
      \cup (IF result.path = "primary" THEN DOMAIN ReplyFields ELSE {})

C2_Witness ==
  /\ DocumentResolved
  /\ result.path = "primary"
  /\ "zz_extra" \in DOMAIN result.extractedFields
  /\ "zz_extra" \notin FieldIds(result.templateMatch)

\* A value conforms to the declared type of its field.
Conforms(field, value) ==
  CASE field.type \in {"text", "textarea"} -> value.t = "string"
    [] field.type = "number" -> value.t \in {"number", "null"}
    [] field.type = "date" ->
         \/ value.t = "null"
         \/ value.t = "string" /\ Len(value.v) = 1
            /\ value.v[1] \in DateTokens
    [] field.type = "select" ->
         /\ value.t = "string"
         /\ \/ value.v = <<>>
            \/ \E i \in 1..Len(field.options) : field.options[i] = value.v
    [] OTHER -> TRUE

\* C3, as claimed: every value of the field map conforms to the declared
\* type of its field.
C3_TypeConforming ==
  DocumentResolved =>
    \A id \in FieldIds(result.templateMatch) :
      Conforms(FieldOf(result.templateMatch, id), result.extractedFields[id])

\* C3, amended: a value the reply carries is returned as it is; a field the
\* reply lacks holds its type default, which conforms to the type; on the
\* fallback paths a field holds its type default or the string a pattern
\* captured.
C3_DefaultsConform ==
  DocumentResolved =>
    \A id \in FieldIds(result.templateMatch) :
      LET field == FieldOf(result.templateMatch, id)
          value == result.extractedFields[id]
      IN IF result.path = "primary" /\ id \in DOMAIN ReplyFields
         THEN value = ReplyFields[id]
         ELSE \/ value = DefaultValue(field) /\ Conforms(field, value)
              \/ /\ result.path # "primary"
                 /\ \E n \in 1..Len(patternKeys) :
                      /\ PatternCapture(patternKeys[n], extractedText)
                           # UndefinedText
                      /\ value = StrV(PatternCapture(patternKeys[n],
                                                     extractedText))

\* The reply lacks a number field, which holds null.
C3_Witness ==
  /\ DocumentResolved
  /\ result.path = "primary"
  /\ "rank_no" \in FieldIds(result.templateMatch)
  /\ "rank_no" \notin DOMAIN ReplyFields
  /\ "to_station" \in DOMAIN ReplyFields
  /\ result.extractedFields["rank_no"] = NullV

\* The stamp and signature request was answered.
StampAnswered ==
  StampsDone /\ Len(sent) = 2 /\ sent[2] = "analyze_stamp"

MatchedStampTypeOf(r) == Get(r, "MatchedStampType", UndefinedName)

\* C4: when the extracted text matches the pattern of a record of the
\* registry, the analysis is validated and names that record, whatever the
\* model replied.
C4_RegistryPrecedence ==
  (StampAnswered /\ MatchingStamps(extractedText) # {}) =>
    /\ result.StampValidation = "Y"
    /\ \E n \in MatchingStamps(extractedText) :
         MatchedStampTypeOf(result) = OFFICIAL_STAMP_MASTER_LIST[n].name

\* C5, as claimed: the analysis is validated only if the extracted text
\* matches a record of the registry, and then names the first such record.
C5_LocalMatchAuthoritative ==
  (StampsDone /\ result.StampValidation = "Y") =>
    /\ MatchingStamps(extractedText) # {}
    /\ MatchedStampTypeOf(result) =
         OFFICIAL_STAMP_MASTER_LIST[SetMin(MatchingStamps(extractedText))].name

\* C5, amended: the analysis is validated only if the request failed and
\* the text matches a record of the registry, the first of which is named,
\* or the reply of the model parsed and claims a match, and then the name
\* is the one the model gave.
C5_ValidatedByRegistryOrByModel ==
  (StampsDone /\ result.StampValidation = "Y") =>
    \/ /\ lastReply.kind \in StampFailureKinds
       /\ MatchingStamps(extractedText) # {}
       /\ MatchedStampTypeOf(result) =
            OFFICIAL_STAMP_MASTER_LIST[
              SetMin(MatchingStamps(extractedText))].name
    \/ /\ lastReply.kind = "json"
       /\ Get(lastReply.json, "official_stamp_match", FALSE)
       /\ MatchedStampTypeOf(result) =
            OrName(Get(lastReply.json, "matched_stamp_type", ""),
                   UndefinedName)

\* The request failed and the text matches two records of the registry.
C5_Witness ==
  /\ StampsDone
  /\ result.StampValidation = "Y"
  /\ lastReply.kind = "transport"
  /\ Cardinality(MatchingStamps(extractedText)) = 2

\* C6: every confidence a stage returns lies in [0,1].
C6_ConfidenceBounds ==
  /\ ollamaResult.status = "resolved" =>
       /\ ollamaResult.confidence \in 0..100
       /\ \A i \in 1..Len(ollamaResult.pages) :
            ollamaResult.pages[i].confidence \in 0..100
  /\ (StampsDone /\ "Confidence" \in DOMAIN result.Stamp) =>
       /\ result.Stamp.Confidence \in 0..100
       /\ result.Signature.Confidence \in 0..100
  /\ DocumentResolved => result.confidence \in 0..100

\* C7: the confidence of the text extractor is 0 exactly when the extracted
\* text is empty.
C7_ZeroIffEmpty ==
  ollamaResult.status = "resolved" =>
    /\ ollamaResult.confidence >= 0
    /\ ollamaResult.confidence = 0 <=> ollamaResult.extractedText = <<>>

\* The response was white space only: the text is empty.
C7_Witness ==
  /\ ollamaResult.status = "resolved"
  /\ lastReply.kind = "ok"
  /\ lastReply.response # <<>>
  /\ ollamaResult.extractedText = <<>>
  /\ ollamaResult.confidence = 0

\* The number of the keywords of the claim that the text holds.
DomainKeywordCount(text) ==
  Cardinality({k \in {"date", "name", "address", "phone", "email", "officer",
                      "department", "police"} :
                 \E i \in 1..Len(text) : TokIncludes(text[i], k)})

\* The sum the claim describes, in hundredths.
ClaimedScore(text) ==
  70
  + (IF TextLength(text) > 100 THEN 10 ELSE 0)
  + (IF TextLength(text) > 500 THEN 10 ELSE 0)
  - (IF TextLength(text) < 20 THEN 20 ELSE 0)
  + (IF (\E i \in 1..Len(text) : HasDigit(text[i]))
        /\ (\E i \in 1..Len(text) : HasLetter(text[i])) THEN 5 ELSE 0)
  + (IF \E i \in 1..Len(text) : HasPunct(text[i]) THEN 5 ELSE 0)
  + 2 * DomainKeywordCount(text)

LongKeywordRich(text) ==
  /\ TextLength(text) > 500
  /\ \E i \in 1..Len(text) : HasDigit(text[i])
  /\ \E i \in 1..Len(text) : HasLetter(text[i])
  /\ \E i \in 1..Len(text) : HasPunct(text[i])
  /\ DomainKeywordCount(text) = 3

\* C8: for a text that is not empty the confidence is the sum of the claim,
\* clamped to [0,1]; a long, keyword-rich text gets exactly 1.0.
C8_ConfidenceFormula ==
  (ollamaResult.status = "resolved" /\ ollamaResult.extractedText # <<>>) =>
    LET text == ollamaResult.extractedText
        score == ClaimedScore(text)
    IN /\ ollamaResult.confidence =
            (IF score > 100 THEN 100 ELSE IF score < 0 THEN 0 ELSE score)
       /\ LongKeywordRich(text) => ollamaResult.confidence = 100

C8_Witness ==
  /\ ollamaResult.status = "resolved"
  /\ LongKeywordRich(ollamaResult.extractedText)
  /\ ollamaResult.confidence = 100

\* C9: with a catalog of at least one template, analyzeDocument resolves
\* with a structured result, whatever the chat completion service did.
C9_AlwaysResolves ==
  (DocumentDone /\ catalog # <<>>) =>
    /\ result.status = "resolved"
    /\ {"templateMatch", "confidence", "documentType", "extractedFields"}
         \subseteq DOMAIN result
    /\ \E i \in 1..Len(catalog) : result.templateMatch = catalog[i]

\* The field extraction request failed in transport.
C9_Witness ==
  /\ DocumentResolved
  /\ catalog # <<>>
  /\ Len(sent) = 2
  /\ lastReply.kind = "transport"
  /\ result.path = "field_fallback"

\* C10: analyzeStampsAndSignatures resolves, and with the fully defaulted
\* result when the failure was not one of the request of analyzeWithOllama.
C10_StampsNeverRaise ==
  StampsDone =>
    /\ result.status = "resolved"
    /\ ~StampAnswered =>
         /\ result.Stamp = [Status |-> "Absent", Coordinates |-> NoCoordinates]
         /\ result.Signature =
              [Status |-> "Absent", Coordinates |-> NoCoordinates]
         /\ result.StampValidation = "N"
         /\ "MatchedStampType" \notin DOMAIN result

\* The text extraction was rejected.
C10_Witness ==
  /\ StampsDone
  /\ ollamaResult.status = "rejected"
  /\ lastReply.kind = "status"
  /\ result.status = "resolved"
  /\ result.StampValidation = "N"

\* The reply to the text extraction request is a failure: no answer, a
\* status that is not OK, a body that is no JSON, or no text in it.
ExtractionRequestFailed ==
  /\ sent = <<"extract_text">>
  /\ lastReply.kind \in {"transport", "status", "badjson", "noresponse"}

\* C11, as claimed: a failed text extraction is no exception; it resolves
\* with the empty text and confidence 0, and the next stage runs on it.
C11_FailureIsEmptyText ==
  ExtractionRequestFailed =>
    /\ ollamaResult.status = "resolved"
    /\ ollamaResult.extractedText = <<>>
    /\ ollamaResult.confidence = 0
    /\ op = "analyzeStampsAndSignatures" => pc = "stamp_read"

\* C11, amended: a failed text extraction rejects extractTextFromDocument;
\* analyzeStampsAndSignatures then sends no stamp and signature request and
\* returns its defaulted result.  The empty text with confidence 0 is what a
\* response of white space only gives.
C11_FailedExtractionRejects ==
  /\ ExtractionRequestFailed =>
       /\ ollamaResult.status = "rejected"
       /\ pc = "done"
       /\ op = "extractTextFromDocument" => result.status = "rejected"
       /\ op = "analyzeStampsAndSignatures" => result = caughtStampResult
  /\ (ollamaResult.status = "resolved" /\ ollamaResult.extractedText = <<>>) =>
       /\ ollamaResult.confidence = 0
       /\ sent = <<"extract_text">> =>
            lastReply.kind = "ok" /\ lastReply.response # <<>>

\* The reply had no text field, inside analyzeStampsAndSignatures.
C11_Witness ==
  /\ StampsDone
  /\ ExtractionRequestFailed
  /\ lastReply.kind = "noresponse"
  /\ ollamaResult.status = "rejected"
  /\ result = caughtStampResult

\* The keywords of a template as the fallback classifier is described: the
\* words of its name, its category, the words of its field labels and the
\* curated synonyms of its id.
ClaimedKeywords(template) ==
  {template.name[i] : i \in 1..Len(template.name)}
  \cup {template.category}
  \cup UNION {{template.template[f].label[i] :
                 i \in 1..Len(template.template[f].label)} :
                f \in 1..Len(template.template)}
  \cup curatedKeywords(template.id)

\* The number of distinct keywords that occur in the text as substrings.
ClaimedCount(text, template) ==
  Cardinality({k \in ClaimedKeywords(template) :
                 \E i \in 1..Len(text) : TokIncludes(text[i], k)})

\* The first template of the catalog with at least one match, else the
\* first template.
ClaimedIndex(text, templates) ==
  IF \E i \in 1..Len(templates) : ClaimedCount(text, templates[i]) >= 1
  THEN CHOOSE i \in 1..Len(templates) :
         /\ ClaimedCount(text, templates[i]) >= 1
         /\ \A j \in 1..(i - 1) : ClaimedCount(text, templates[j]) = 0
  ELSE 1

ClaimedConfidence(text, templates) ==
  LET count == ClaimedCount(text, templates[ClaimedIndex(text, templates)])
  IN IF count = 0 THEN 50
     ELSE IF 50 + 10 * count > 80 THEN 80 ELSE 50 + 10 * count

\* The reply to the classification request is the last reply.
ClassificationAnswered ==
  /\ op = "analyzeDocument"
  /\ pc = "extract_wait" \/ (pc = "done" /\ Len(sent) = 1)

\* The template analyzeDocument goes on with.
ChosenTemplate == IF pc = "done" THEN result.templateMatch ELSE templateMatch

\* C12, as claimed: after a failed classification call the template is the
\* one the keyword-overlap fallback selects, with that fallback's
\* confidence.
C12_KeywordFallbackOnFailure ==
  (ClassificationAnswered /\ lastReply.kind \in LlmFailureKinds
   /\ catalog # <<>>) =>
    /\ ChosenTemplate = catalog[ClaimedIndex(extractedText, catalog)]
    /\ pc = "done" =>
         result.confidence = ClaimedConfidence(extractedText, catalog)

\* C12, amended: after a failed classification call the template is the
\* first of the catalog, whatever the text, and the field extraction
\* request is sent for it; the result carries that template and the
\* confidence of the field extraction.  The keyword-overlap fallback decides
\* only after a reply that parsed.
C12_FirstTemplateOnFailure ==
  /\ (ClassificationAnswered /\ lastReply.kind \in LlmFailureKinds
      /\ catalog # <<>>) =>
       /\ pc = "extract_wait"
       /\ templateMatch = catalog[1]
       /\ sent = <<"classify", "extract_fields">>
  /\ (DocumentResolved /\ Len(sent) = 2) =>
       /\ result.templateMatch = templateMatch
       /\ result.path \in {"primary", "field_fallback"}
  /\ (DocumentResolved /\ result.path = "analysis_fallback") =>
       /\ Len(sent) = 1
       /\ lastReply.kind = "json"

\* The reply did not parse, and the keywords of the text select the second
\* template of the catalog.
C12_Witness ==
  /\ ClassificationAnswered
  /\ lastReply.kind = "nojson"
  /\ Len(catalog) = 2
  /\ ClaimedIndex(extractedText, catalog) = 2
  /\ templateMatch = catalog[1]

\* The id of the reply to the classification request is the id of no
\* template of the catalog.
UnresolvedId ==
  /\ lastReply.kind = "json"
  /\ \A i \in 1..Len(catalog) :
       catalog[i].id # Get(lastReply.json, "bestTemplateId", "<undefined>")

\* C13: an id that is the id of no template of the catalog leaves the
\* choice to the keyword-overlap fallback, and the template of every result
\* is a template of the catalog.
C13_UnresolvedIdFallsBack ==
  /\ (ClassificationAnswered /\ UnresolvedId /\ catalog # <<>>) =>
       /\ pc = "done"
       /\ result.status = "resolved"
       /\ result.path = "analysis_fallback"
       /\ result.templateMatch = catalog[ClaimedIndex(extractedText, catalog)]
       /\ result.confidence = ClaimedConfidence(extractedText, catalog)
  /\ (ClassificationAnswered /\ lastReply.kind = "json" /\ ~UnresolvedId) =>
       /\ pc = "extract_wait"
       /\ templateMatch.id = lastReply.json.bestTemplateId
  /\ (DocumentDone /\ catalog # <<>>) =>
       \E i \in 1..Len(catalog) : result.templateMatch = catalog[i]

\* The model named a template that the catalog does not hold, and the
\* keywords select the second template.
C13_Witness ==
  /\ DocumentResolved
  /\ Len(sent) = 1
  /\ lastReply.kind = "json"
  /\ Get(lastReply.json, "bestTemplateId", "<undefined>") = "award"
  /\ UnresolvedId
  /\ Len(catalog) = 2
  /\ result.templateMatch = catalog[2]

\* C14: the keyword-overlap fallback returns the first template of the
\* catalog with at least one keyword in the text, with confidence
\* min(0.8, 0.5 + 0.1 x count), and the first template with confidence 0.5
\* when no template has a match.
C14_KeywordFallback ==
  (DocumentResolved /\ result.path = "analysis_fallback") =>
    /\ result.templateMatch = catalog[ClaimedIndex(extractedText, catalog)]
    /\ result.confidence = ClaimedConfidence(extractedText, catalog)
    /\ result.documentType = result.templateMatch.name

\* The first template has one match and is chosen, with confidence 0.6; the
\* second has three.
C14_Witness ==
  /\ DocumentResolved
  /\ result.path = "analysis_fallback"
  /\ Len(catalog) = 2
  /\ result.templateMatch = catalog[1]
  /\ ClaimedCount(extractedText, catalog[1]) = 1
  /\ ClaimedCount(extractedText, catalog[2]) = 3
  /\ result.confidence = 60

\* Every field of the template holds its type default, and there is no
\* other key.
AllDefaults(fields, template) ==
  /\ DOMAIN fields = FieldIds(template)
  /\ \A id \in FieldIds(template) :
       fields[id] = DefaultValue(FieldOf(template, id))

RequestCount(kind) == Cardinality({i \in 1..Len(sent) : sent[i] = kind})

C18_ForwardOnly ==
  /\ sent \in {<<>>, <<"extract_text">>, <<"extract_text", "analyze_stamp">>,
               <<"classify">>, <<"classify", "extract_fields">>}
  /\ RequestCount("analyze_stamp") > 0 =>
       /\ ollamaResult.status = "resolved"
       /\ extractedText = ollamaResult.extractedText
       /\ templateMatch = NoTemplate
       /\ catalog = <<>>
  /\ RequestCount("extract_fields") > 0 =>
       /\ templateMatch # NoTemplate
       /\ \E i \in 1..Len(catalog) : templateMatch = catalog[i]
       /\ pc = "extract_wait" =>
            templateMatch = findBestTemplate(lastReply, catalog)
       /\ DocumentResolved => result.templateMatch = templateMatch

\* The stamp and signature request was sent with a text that is not empty.
C18_Witness ==
  /\ StampAnswered
  /\ ollamaResult.status = "resolved"
  /\ extractedText # <<>>
  /\ result.ExtractedText = ollamaResult.extractedText

\* C19: when the stamp and signature request fails, or its reply holds no
\* JSON, the result is the one of fallbackTextAnalysis on the extracted
\* text.
C19_HeuristicResultReturned ==
  (StampAnswered /\ lastReply.kind \in StampFailureKinds \cup {"nojson"}) =>
    result = stampResult(fallbackTextAnalysis(extractedText), extractedText)

\* The number of fields that do not hold their type default.
FilledFields(fields, template) ==
  Cardinality({id \in FieldIds(template) :
                 fields[id] # DefaultValue(FieldOf(template, id))})

\* C20, as claimed: the confidence reported with the fields of
\* extractFieldsBasic is 0.6 on every path.
C20_PatternExtractorConfidence ==
  (DocumentResolved /\ result.path # "primary") => result.confidence = 60

\* C20, amended: it is 0.6 when the field extraction fell back for a
\* template already chosen, whatever the number of pattern matches; when
\* the keyword-overlap fallback chose the template it is that fallback's
\* confidence, from 0.5 to 0.8.
C20_ConfidenceOfFallbackPath ==
  /\ (DocumentResolved /\ result.path = "field_fallback") =>
       /\ result.confidence = 60
       /\ result.extractedFields =
            extractFieldsBasic(extractedText, result.templateMatch)
  /\ (DocumentResolved /\ result.path = "analysis_fallback") =>
       /\ result.confidence = ClaimedConfidence(extractedText, catalog)
       /\ result.confidence \in {50, 60, 70, 80}
       /\ result.extractedFields =
            extractFieldsBasic(extractedText, result.templateMatch)

\* The patterns filled two fields and the confidence is 0.6.
C20_Witness ==
  /\ DocumentResolved
  /\ result.path = "field_fallback"
  /\ FilledFields(result.extractedFields, result.templateMatch) = 2
  /\ result.confidence = 60


\* The default the claim gives a field of each type.
C24_TypeDefault(field) ==
  IF field.type \in {"text", "textarea"} THEN StrV(<<>>)
  ELSE IF field.type \in {"number", "date"} THEN NullV
  ELSE IF field.options = <<>> THEN StrV(<<>>) ELSE StrV(field.options[1])

\* C24: in the result of a reply that carried a field map, every key of the
\* reply keeps its value (a null too), every field id of the template the
\* reply lacks holds the default of its type, and completing the result
\* once more changes nothing.
C24_CompletionFrame ==
  (DocumentResolved /\ result.path = "primary") =>
    LET template == result.templateMatch
        fields == result.extractedFields
    IN /\ \A id \in DOMAIN ReplyFields : fields[id] = ReplyFields[id]
       /\ \A id \in FieldIds(template) \ DOMAIN ReplyFields :
            fields[id] = C24_TypeDefault(FieldOf(template, id))
       /\ DOMAIN fields = DOMAIN ReplyFields \cup FieldIds(template)
       /\ ensureAllFieldsPresent(fields, template) = fields

\* The reply holds a null for the first field and lacks the select field
\* with options.
C24_Witness ==
  /\ DocumentResolved
  /\ result.path = "primary"
  /\ result.templateMatch = LeaveTemplate
  /\ DOMAIN ReplyFields = {"officer_name"}
  /\ ReplyFields["officer_name"] = NullV
  /\ result.extractedFields["officer_name"] = NullV
  /\ result.extractedFields["leave_type"] = StrV(<<"casual">>)

\* C25, as claimed: with the empty catalog analyzeDocument resolves.
C25_EmptyCatalogResolves ==
  (DocumentDone /\ catalog = <<>>) => result.status = "resolved"


HealthDone == health.pc = "done"

\* C21, as claimed: every health check sends one request and returns a
\* boolean, false when the transport failed or the status is not OK.
C21_HealthIsBoolean ==
  HealthDone =>
    /\ health.requests = 1
    /\ health.returned.type = "boolean"
    /\ (health.reply.kind = "transport" \/ ~ResponseOk(health.reply)) =>
         health.returned = BooleanV(FALSE)


\* C22, as claimed: a stage that has sent a request to the inference
\* service eventually completes, whether the service answers or not.
C22_EveryStageCompletes == (pc \in ServiceWaits) ~> (pc = "done")


\* What analyzeDocument returns when it runs alone: with the catalog as it
\* was given and the replies to its own requests.
C23_RunAlone(text, templates, replies) ==
  LET match == findBestTemplate(replies[1], templates)
  IN IF match = NoTemplate
     THEN catchAnalysis(createFallbackAnalysis(text, templates),
                        text, templates)
     ELSE catchAnalysis(
            analysisResult(
              extractFieldsForTemplate(replies[2], text, match), match),
            text, templates)

C26_ListenerIsolation ==
  \A i \in 1..Len(last) :
    \A c \in last[i].calls :
      \A f \in c.files : pendingFiles[f].sessionId = listeners[c.listener]

\* An uploadFile that found no valid session.
Refused(did) == did.op = "uploadFile" /\ did.returned = "null"

\* C27, as claimed: uploadFile for a session that is unknown or expired
\* rejects, stores nothing and notifies no listener, and a file is stored
\* only under a session that is not expired when it is stored.
C27_StoreOnlyForLiveSession ==
  /\ [](\A i \in 1..Len(last) :
          /\ Refused(last[i]) => last[i].threw /\ last[i].calls = {}
          /\ last[i].op = "stored" =>
               /\ activeSessions[last[i].sessionId].status = "active"
               /\ ~activeSessions[last[i].sessionId].past)
  /\ [][(Len(last') = 1 /\ Refused(last'[1])) =>
          pendingFiles' = pendingFiles]_vars

\* C29: a session getSession returns is active and not past its
\* expiresAt; an expired session is past its expiresAt and stays expired.
C29_NeverReturnsExpired ==
  /\ [](\A i \in 1..Len(last) :
          last[i].returned \notin {"none", "null"} =>
            /\ last[i].returned = "active"
            /\ activeSessions[last[i].sessionId].status = "active"
            /\ ~activeSessions[last[i].sessionId].past)
  /\ [](\A s \in SessionIds :
          activeSessions[s].status = "expired" => activeSessions[s].past)
  /\ [][\A s \in SessionIds :
          /\ activeSessions[s].past => activeSessions'[s].past
          /\ activeSessions[s].status = "expired" =>
               activeSessions'[s].status = "expired"]_vars

\* getSession was called for a session past its expiresAt: it returned
\* null and the session is expired, while the other session is returned.
C29_Witness ==
  /\ Len(last) = 1
  /\ last[1].op = "getSession"
  /\ last[1].sessionId = "s1"
  /\ last[1].returned = "null"
  /\ activeSessions["s1"] = [status |-> "expired", past |-> TRUE]
  /\ activeSessions["s2"] = [status |-> "active", past |-> FALSE]

\* The files the claim lets through: at most 10 MB, an image or a PDF.
C30_Allowed(file) ==
  /\ file.size <= 10
  /\ file.type \in {"image/png", "image/jpeg", "application/pdf"}

\* C30, as claimed: the page hands to uploadFile only files of at most
\* 10 MB that are an image or a PDF, and when a file of a batch fails the
\* validation the page shows the error and no file of the batch is stored.
C30_BatchValidation ==
  \A i \in 1..Len(last) :
    /\ (page.pc = "uploading" /\ last[i].op = "uploadFile") =>
         C30_Allowed(last[i].file)
    /\ last[i].op = "validate" => page.error /\ page.stored = 0


\* C28, as claimed: a notification taken from localStorage is delivered,
\* with its session id and its file data, once to every callback that was
\* registered for its type when it was taken, and to no other callback.
C28_DeliveredToItsListeners ==
  \A k \in 1..Len(delivered.polled) :
    LET m == delivered.polled[k]
    IN \A l \in 1..m.listeners :
         LET got == {j \in 1..Len(delivered.calls) :
                       /\ delivered.calls[j].listener = l
                       /\ delivered.calls[j].id = k}
         IN IF wsListeners[l] = m.type
            THEN /\ Cardinality(got) = 1
                 /\ \A j \in got :
                      /\ delivered.calls[j].update.sessionId = m.sessionId
                      /\ delivered.calls[j].update.data = m.data
            ELSE got = {}

=============================================================================
